---- MODULE Spec2Model ----
(***************************************************************************)
(* Internet Usage Tracker: the session tracker of the background script    *)
(* (src/popup/popup.js, from line 285) and the sync manager                 *)
(* (src/supabase-setup.sql, from line 264), as one state machine.          *)
(*                                                                         *)
(* Handlers run to completion between awaits; an action is one such run:   *)
(* from an event (or the resumption of an await) to the next await.  A     *)
(* storage or browser call takes effect when it is issued, its promise     *)
(* resolves in a later step.                                               *)
(***************************************************************************)
EXTENDS Integers, Sequences, FiniteSets, TLC

(***************************************************************************)
(* Bounds of the model.                                                    *)
(***************************************************************************)
\* one-second ticks of the clock within one retention period
MaxTicks == 2
\* jumps of the clock by one retention period (30 days pass)
MaxJumps == 1
\* times the wall clock is set back by one second
MaxClockBacks == 1
\* awaited tab lookups (tabs.get / tabs.query) outstanding at once
MaxLookups == 1
\* tab lookups awaited at the same time where their settling order is studied
MaxOutstanding == 2
\* the seconds that pass at once in the tab-switch scenario
SessionSeconds == 65
\* performSync invocations in one behaviour
MaxSyncs == 2
\* the longest stored archive pruneArchive is tried on
MaxArchive == 3
\* the longest pending buffer and archive getStats is tried on
MaxStatsPending == 2
MaxStatsArchive == 1

(***************************************************************************)
(* Program constants.                                                      *)
(***************************************************************************)
\* 24 * 60 * 60 in pruneArchive
DaySeconds == 86400
\* DEFAULT_CONFIG.archiveRetentionDays
DefaultRetentionDays == 30
\* endTimestamp: null of an open session; no clock reading is negative
NullTimestamp == -1
\* DEFAULT_CONFIG.idleThresholdMinutes, and TrackerState.idleThresholdSeconds
\* as the script sets it
DefaultThresholdMinutes == 5
InitialThresholdSeconds == 300
\* the detection interval of browser.idle before setDetectionInterval is called
DefaultDetectionInterval == 60
\* deviceId: null; the generated ids are numbered from 1
NoDeviceId == 0

\* TrackerState.currentSession = null
NULL == [null |-> TRUE]

(***************************************************************************)
(* URLs are sequences of tokens: the scheme with its colon, then the host  *)
(* (for schemes that have one), then the rest.  "" is the empty sequence.  *)
(***************************************************************************)
UrlA == <<"https:", "a.com", "/">>
UrlB == <<"https:", "b.com", "/">>
UrlInternal == <<"about:", "blank">>

\* tab 1 navigates and changes its title; tab 2 is a fixed private page
TabIds == {1, 2}
NoTab == 0
Tab1Urls == {UrlA, UrlInternal}
Tab1Titles == {"A", "A2"}
Tab2Url == UrlB
Tab2Title == ""

\* Utils.isTrackableUrl
ExcludedProtocols == {"about:", "moz-extension:", "chrome:", "file:", "data:", "javascript:"}
StartsWith(url, protocol) == Len(url) >= 1 /\ url[1] = protocol
\* mutant: every non-empty URL is tracked
isTrackableUrl_NonEmpty(url) == url # <<>>

isTrackableUrl(url) ==
  IF url = <<>> THEN FALSE
  ELSE ~ \E protocol \in ExcludedProtocols : StartsWith(url, protocol)

\* Utils.extractDomain: new URL(url).hostname, or the url itself when it does
\* not parse; a domain is a token sequence too (<<host>>, or <<>> for "")
HostSchemes == {"http:", "https:", "ftp:", "ws:", "wss:"}
KnownSchemes == HostSchemes \cup ExcludedProtocols \cup {"view-source:", "blob:", "resource:"}
extractDomain(url) ==
  IF Len(url) >= 1 /\ url[1] \in KnownSchemes
  THEN IF url[1] \in HostSchemes /\ Len(url) >= 2 THEN <<url[2]>> ELSE <<>>
  ELSE url

VARIABLES
  \* TrackerState
  currentSession, isIdle, pendingSessions, config,
  \* browser.storage.local
  stPending, archive, failedSyncs,
  \* the browser and the world
  now, clockBacks, tab1Url, tab1Title, activeTab, lookups, online,
  \* the performSync invocations, their number so far, the backend's sessions table
  sync, syncs, backendRows,
  \* ghost: sessions opened and not yet ended
  openCount,
  \* the getStats request of the popup
  stats,
  \* TrackerState.deviceId and .initialized, the stored deviceId, the
  \* invocations of initialize(), and (ghost) the UUIDs generated so far
  deviceId, stDeviceId, initialized, init, uuids,
  \* the 'config' key of browser.storage.local
  stConfig,
  \* the clearData request of the options page
  clear,
  \* ghost: a browser window has the focus (followed by WindowFocusLost and
  \* WindowFocusGained)
  focused,
  \* TrackerState.idleThresholdSeconds, and the interval last passed to
  \* browser.idle.setDetectionInterval
  idleThresholdSeconds, detectionInterval,
  \* ghost: the listeners that ended with an exception nothing caught
  unhandled

trackerVars == <<currentSession, isIdle, pendingSessions, config, stPending, openCount>>
storageVars == <<archive, failedSyncs>>
clockVars == <<now, clockBacks>>
tabVars == <<tab1Url, tab1Title, activeTab>>
syncVars == <<sync, syncs, backendRows>>
\* what the tracker's listeners and performSync never write
initVars == <<deviceId, stDeviceId, initialized, init, uuids>>
idleVars == <<idleThresholdSeconds, detectionInterval>>
sideVars == <<stats, initVars, stConfig, clear, focused, idleVars, unhandled>>
vars == <<trackerVars, storageVars, clockVars, tabVars, lookups, online, syncVars, sideVars>>

\* the tab object the browser hands to a handler
TabObj(t) ==
  IF t = 1
  THEN [id |-> 1, url |-> tab1Url, title |-> tab1Title, incognito |-> FALSE]
  ELSE [id |-> 2, url |-> Tab2Url, title |-> Tab2Title, incognito |-> TRUE]

\* Utils.getCurrentTimestamp
getCurrentTimestamp == now

(***************************************************************************)
(* The tracker's synchronous functions, as functions of the tracker state  *)
(* T = [currentSession, pendingSessions, stPending, openCount] (isIdle and *)
(* config are read from the state: these functions do not write them).     *)
(***************************************************************************)
TS == [currentSession |-> currentSession, pendingSessions |-> pendingSessions,
       stPending |-> stPending, openCount |-> openCount]

\* savePendingSessions: storage.local.set, issued with the buffer as it is
savePendingSessions(T) == [T EXCEPT !.stPending = T.pendingSessions]

\* mutant: sessions of zero seconds are saved too
SaveWorthy_FromZero(durationSeconds) == durationSeconds >= 0

\* the test "duration is at least 1 second" of endCurrentSession
SaveWorthy(durationSeconds) == durationSeconds >= 1

endCurrentSession(T) ==
  IF T.currentSession = NULL THEN T
  ELSE LET closed == [T.currentSession EXCEPT
                        !.endTimestamp = getCurrentTimestamp,
                        !.durationSeconds = getCurrentTimestamp - T.currentSession.startTimestamp]
           T1 == IF SaveWorthy(closed.durationSeconds)
                 THEN savePendingSessions(
                        [T EXCEPT !.pendingSessions = Append(T.pendingSessions, closed)])
                 ELSE T
       IN [T1 EXCEPT !.currentSession = NULL, !.openCount = T.openCount - 1]

\* mutant: startSession that does not end the existing session
EndExistingFirst_Skipped(T) == T

\* the first statement of startSession: "End any existing session first"
EndExistingFirst(T) == endCurrentSession(T)

startSession(T, tab) ==
  LET T1 == EndExistingFirst(T)
  IN IF config.idleDetectionEnabled /\ isIdle THEN T1
     ELSE IF ~ isTrackableUrl(tab.url) THEN T1
     ELSE [T1 EXCEPT
             !.currentSession =
                [url |-> tab.url,
                 domain |-> extractDomain(tab.url),
                 title |-> IF tab.title = "" THEN "Untitled" ELSE tab.title,
                 startTimestamp |-> getCurrentTimestamp,
                 endTimestamp |-> NullTimestamp,
                 durationSeconds |-> 0,
                 tabId |-> tab.id,
                 incognito |-> tab.incognito],
             !.openCount = T1.openCount + 1]

\* mutant: a new URL is written into the open session
updateCurrentSession_InPlace(T, tab) ==
  IF T.currentSession = NULL THEN startSession(T, tab)
  ELSE [T EXCEPT !.currentSession.url = tab.url,
                 !.currentSession.domain = extractDomain(tab.url)]

updateCurrentSession(T, tab) ==
  IF T.currentSession = NULL THEN startSession(T, tab)
  ELSE IF T.currentSession.url # tab.url
       THEN startSession(endCurrentSession(T), tab)
  ELSE IF tab.title # "" /\ T.currentSession.title # tab.title
       THEN [T EXCEPT !.currentSession.title = tab.title]
  ELSE T

\* write a tracker state back
SetTracker(T) ==
  /\ currentSession' = T.currentSession
  /\ pendingSessions' = T.pendingSessions
  /\ stPending' = T.stPending
  /\ openCount' = T.openCount

(***************************************************************************)
(* The clock: Date.now() is the wall clock; it ticks, a retention period   *)
(* may pass at once, and it may be set back.                               *)
(***************************************************************************)
RetentionJump == DefaultRetentionDays * DaySeconds

Tick ==
  /\ now % RetentionJump < MaxTicks
  /\ now' = now + 1
  /\ UNCHANGED <<clockBacks, trackerVars, storageVars, tabVars, lookups, online, sideVars, syncVars>>

ClockJump ==
  /\ now \div RetentionJump < MaxJumps
  /\ now' = now + RetentionJump
  /\ UNCHANGED <<clockBacks, trackerVars, storageVars, tabVars, lookups, online, sideVars, syncVars>>

ClockBack ==
  /\ clockBacks < MaxClockBacks
  /\ now % RetentionJump > 0
  /\ now' = now - 1
  /\ clockBacks' = clockBacks + 1
  /\ UNCHANGED <<trackerVars, storageVars, tabVars, lookups, online, sideVars, syncVars>>

(***************************************************************************)
(* Awaited tab lookups.  The browser answers them in the order asked; the  *)
(* answer is the tab as it is when the answer is given.                    *)
(***************************************************************************)
\* startTrackingActiveTab after its await of tabs.query
startTrackingActiveTabResume(T) ==
  IF activeTab # NoTab /\ isTrackableUrl(TabObj(activeTab).url)
  THEN startSession(T, TabObj(activeTab))
  ELSE T

\* the tabs.onActivated listener after its await of tabs.get
onActivatedResume(T, tabId) ==
  IF isTrackableUrl(TabObj(tabId).url)
  THEN startSession(endCurrentSession(T), TabObj(tabId))
  ELSE endCurrentSession(T)

\* tabs.onActivated fires: the listener awaits tabs.get(activeInfo.tabId)
OnActivated(t) ==
  /\ Len(lookups) < MaxLookups
  /\ activeTab' = t
  /\ lookups' = Append(lookups, [kind |-> "get", tabId |-> t])
  /\ UNCHANGED <<tab1Url, tab1Title, trackerVars, storageVars, clockVars, online, sideVars, syncVars>>

\* the head lookup resolves and its handler runs on
LookupResolves ==
  /\ lookups # <<>>
  /\ LET l == Head(lookups)
     IN SetTracker(IF l.kind = "get" THEN onActivatedResume(TS, l.tabId)
                   ELSE IF l.kind = "query" THEN startTrackingActiveTabResume(TS)
                   ELSE \* tabs.get rejected: the listener's catch
                        TS)
  /\ lookups' = Tail(lookups)
  /\ UNCHANGED <<isIdle, config, storageVars, clockVars, tabVars, online, sideVars, syncVars>>

(***************************************************************************)
(* Synchronous listeners.                                                  *)
(***************************************************************************)
\* tabs.onUpdated for a URL change of tab 1
OnUpdatedUrl(u) ==
  /\ u # tab1Url
  /\ tab1Url' = u
  /\ LET tab == [TabObj(1) EXCEPT !.url = u]
     IN SetTracker(IF activeTab # 1 THEN TS
                   ELSE IF isTrackableUrl(tab.url) THEN updateCurrentSession(TS, tab)
                   ELSE endCurrentSession(TS))
  /\ UNCHANGED <<tab1Title, activeTab, isIdle, config, storageVars, clockVars, lookups, online, sideVars, syncVars>>

\* mutant: a title change closes the session and opens a new one
OnUpdatedTitle_Restarts(ti) ==
  /\ ti # tab1Title
  /\ tab1Title' = ti
  /\ SetTracker(IF activeTab = 1 /\ currentSession # NULL
                THEN startSession(endCurrentSession(TS), [TabObj(1) EXCEPT !.title = ti])
                ELSE TS)
  /\ UNCHANGED <<tab1Url, activeTab, isIdle, config, storageVars, clockVars, lookups, online, sideVars, syncVars>>

\* tabs.onUpdated for a title change of tab 1
OnUpdatedTitle(ti) ==
  /\ ti # tab1Title
  /\ tab1Title' = ti
  /\ SetTracker(IF activeTab = 1 /\ currentSession # NULL
                THEN [TS EXCEPT !.currentSession.title = ti]
                ELSE TS)
  /\ UNCHANGED <<tab1Url, activeTab, isIdle, config, storageVars, clockVars, lookups, online, sideVars, syncVars>>

\* the tab is gone: a tabs.get of it that is still awaited will reject
Rejected(ls, t) ==
  [i \in 1..Len(ls) |->
     IF ls[i].kind = "get" /\ ls[i].tabId = t THEN [ls[i] EXCEPT !.kind = "rejected"]
     ELSE ls[i]]

\* mutant: the session is ended whichever tab is closed
OnRemoved_AnyTab(t) ==
  /\ activeTab' = IF activeTab = t THEN NoTab ELSE activeTab
  /\ SetTracker(endCurrentSession(TS))
  /\ lookups' = Rejected(lookups, t)
  /\ UNCHANGED <<tab1Url, tab1Title, isIdle, config, storageVars, clockVars, online, sideVars, syncVars>>

\* tabs.onRemoved
OnRemoved(t) ==
  /\ activeTab' = IF activeTab = t THEN NoTab ELSE activeTab
  /\ SetTracker(IF currentSession # NULL /\ currentSession.tabId = t
                THEN endCurrentSession(TS) ELSE TS)
  /\ lookups' = Rejected(lookups, t)
  /\ UNCHANGED <<tab1Url, tab1Title, isIdle, config, storageVars, clockVars, online, sideVars, syncVars>>

\* mutant: the open session is dropped, not ended
OnFocusLost_Drops ==
  /\ currentSession' = NULL
  /\ UNCHANGED <<pendingSessions, stPending, openCount>>
  /\ UNCHANGED <<isIdle, config, storageVars, clockVars, tabVars, lookups, online, sideVars, syncVars>>

\* windows.onFocusChanged with WINDOW_ID_NONE
OnFocusLost ==
  /\ SetTracker(endCurrentSession(TS))
  /\ UNCHANGED <<isIdle, config, storageVars, clockVars, tabVars, lookups, online, sideVars, syncVars>>

\* windows.onFocusChanged with a window: startTrackingActiveTab awaits tabs.query
OnFocusGained ==
  /\ Len(lookups) < MaxLookups
  /\ lookups' = Append(lookups, [kind |-> "query", tabId |-> NoTab])
  /\ UNCHANGED <<trackerVars, storageVars, clockVars, tabVars, online, sideVars, syncVars>>

\* mutant: the listener does not look at idleDetectionEnabled
OnIdleState_Always(state) ==
  /\ IF state \in {"idle", "locked"}
     THEN /\ isIdle' = TRUE
          /\ SetTracker(endCurrentSession(TS))
          /\ UNCHANGED <<config, lookups>>
     ELSE /\ Len(lookups) < MaxLookups
          /\ isIdle' = FALSE
          /\ lookups' = Append(lookups, [kind |-> "query", tabId |-> NoTab])
          /\ UNCHANGED <<currentSession, pendingSessions, stPending, openCount, config>>
  /\ UNCHANGED <<storageVars, clockVars, tabVars, online, sideVars, syncVars>>

\* idle.onStateChanged
OnIdleState(state) ==
  /\ IF ~ config.idleDetectionEnabled
     THEN UNCHANGED <<trackerVars, lookups>>
     ELSE IF state \in {"idle", "locked"}
     THEN /\ isIdle' = TRUE
          /\ SetTracker(endCurrentSession(TS))
          /\ UNCHANGED <<config, lookups>>
     ELSE /\ Len(lookups) < MaxLookups
          /\ isIdle' = FALSE
          /\ lookups' = Append(lookups, [kind |-> "query", tabId |-> NoTab])
          /\ UNCHANGED <<currentSession, pendingSessions, stPending, openCount, config>>
  /\ UNCHANGED <<storageVars, clockVars, tabVars, online, sideVars, syncVars>>

(***************************************************************************)
(* SyncManager (src/supabase-setup.sql) and performSync.  An invocation p  *)
(* of performSync is a process; sync[p].pc is the await it is suspended    *)
(* at.  `sessions` is the array object TrackerState.pendingSessions held   *)
(* when sync was called: while sync[p].aliased, it IS the tracker's buffer *)
(* (a session pushed meanwhile is seen through it); once the tracker       *)
(* assigns a new array to pendingSessions, it is the old array, kept in    *)
(* sync[p].sessions.                                                       *)
(***************************************************************************)
\* "online": the listener of the window's online event
Procs == {"alarm", "syncNow", "online"}

IdleProc ==
  [pc |-> "idle", hadActiveSession |-> FALSE, activeTabInfo |-> NULL,
   aliased |-> FALSE, sessions |-> <<>>, path |-> "", error |-> "",
   got |-> <<>>, result |-> NULL, config |-> NULL,
   \* ghost: what sync was called with and found, the requests it made
   input |-> <<>>, archive0 |-> <<>>, failed0 |-> <<>>, rows0 |-> <<>>, onLine |-> TRUE,
   validations |-> 0, userValid |-> "unknown", inserts |-> 0]

Sessions(p) == IF sync[p].aliased THEN pendingSessions ELSE sync[p].sessions

\* TrackerState.pendingSessions = <new array>: the invocations holding the old
\* array keep it
Unalias(sy) ==
  [q \in Procs |->
     IF sy[q].aliased
     THEN [sy[q] EXCEPT !.aliased = FALSE, !.sessions = pendingSessions]
     ELSE sy[q]]

\* mutant: the archived copy keeps whole minutes only
Archived_WholeMinutes(s, at) ==
  [url |-> s.url, domain |-> s.domain, title |-> s.title,
   startTimestamp |-> s.startTimestamp, endTimestamp |-> s.endTimestamp,
   durationSeconds |-> (s.durationSeconds \div 60) * 60, tabId |-> s.tabId,
   incognito |-> s.incognito, archivedAt |-> at]

\* the session objects archiveLocally appends: {...session, archivedAt}
Archived(s, at) ==
  [url |-> s.url, domain |-> s.domain, title |-> s.title,
   startTimestamp |-> s.startTimestamp, endTimestamp |-> s.endTimestamp,
   durationSeconds |-> s.durationSeconds, tabId |-> s.tabId,
   incognito |-> s.incognito, archivedAt |-> at]

RECURSIVE MapArchived(_, _)
MapArchived(ss, at) ==
  IF ss = <<>> THEN <<>> ELSE <<Archived(Head(ss), at)>> \o MapArchived(Tail(ss), at)

archiveLocally_Nothing(stored, sessions) == stored

\* archiveLocally after its storage.get: map, push, storage.set
archiveLocally(stored, sessions) == stored \o MapArchived(sessions, getCurrentTimestamp)

\* mutant: the filter compares the tab, not the startTimestamp
NotQueued_ByTab(failed, s) == \A i \in 1..Len(failed) : failed[i].tabId # s.tabId

\* the filter of queueFailedSync
NotQueued(failed, s) == \A i \in 1..Len(failed) : failed[i].startTimestamp # s.startTimestamp

queueFailedSync_Unfiltered(stored, sessions) == stored \o sessions

\* queueFailedSync after its storage.get: filter against the stored queue, push
queueFailedSync(stored, sessions) ==
  stored \o SelectSeq(sessions, LAMBDA s : NotQueued(stored, s))

Retained_ByArchivalOnly(session, cutoffTimestamp) == session.archivedAt > cutoffTimestamp

\* the filter of pruneArchive
Retained(session, cutoffTimestamp) ==
  session.archivedAt > cutoffTimestamp \/ session.startTimestamp > cutoffTimestamp

pruneArchive(stored, retentionDays) ==
  LET cutoffTimestamp == getCurrentTimestamp - (retentionDays * 24 * 60 * 60)
  IN SelectSeq(stored, LAMBDA session : Retained(session, cutoffTimestamp))

\* buildPayload and sendToApi: one row per session
Row(s, c) ==
  [user_id |-> c.userId, url |-> s.url, domain |-> s.domain, title |-> s.title,
   start_timestamp |-> s.startTimestamp, end_timestamp |-> s.endTimestamp,
   duration_seconds |-> s.durationSeconds, tab_id |-> s.tabId, incognito |-> s.incognito]

RECURSIVE Rows(_, _)
Rows(ss, c) == IF ss = <<>> THEN <<>> ELSE <<Row(Head(ss), c)>> \o Rows(Tail(ss), c)

ApiConfigured_EndpointOnly(c) == c.apiEndpoint # ""

\* "Check if API is configured"
ApiConfigured(c) == c.apiEndpoint # "" /\ c.apiKey # ""

\* the messages of the errors validateUser and sync report
ErrUserIdNotSet == "User ID not set"
ErrNotAuthorized == "User not authorized. Email dhondpratyay@gmail.com to request access."
ErrValidationHttp == "Validation failed: 500"
ErrNetwork == "NetworkError when attempting to fetch resource."
ErrApiHttp == "API error 401: "
ErrOffline == "offline"

NothingToSync_Never(sessions) == FALSE

\* "Check if we have sessions to sync"
NothingToSync(sessions) == Len(sessions) = 0

\* SyncManager.sync from its call to its first await.  sy is the process
\* record after performSync's own part, T the tracker state at the call.
SyncCall(p, sy, T) ==
  LET sessions == T.pendingSessions
      s0 == [sy EXCEPT !.aliased = TRUE, !.sessions = <<>>, !.config = config,
                       !.input = sessions, !.archive0 = archive, !.failed0 = failedSyncs,
                       !.rows0 = backendRows]
  IN IF NothingToSync(sessions)
     THEN [s0 EXCEPT !.pc = "returned", !.result = [success |-> TRUE, synced |-> 0]]
     ELSE IF ~ ApiConfigured(config)
     THEN [s0 EXCEPT !.pc = "archiveGet", !.path = "local", !.got = archive]
     ELSE IF config.userId = ""
     THEN [s0 EXCEPT !.pc = "archiveGet", !.path = "invalid", !.error = ErrUserIdNotSet,
                     !.got = archive, !.userValid = "no"]
     ELSE [s0 EXCEPT !.pc = "validating", !.validations = 1]

\* performSync is invoked (the sync alarm, the syncNow message, the online event)
PerformSync(p) ==
  /\ sync[p].pc = "idle"
  /\ syncs < MaxSyncs
  /\ syncs' = syncs + 1
  /\ LET sy == [IdleProc EXCEPT !.hadActiveSession = (currentSession # NULL)]
     IN sync' = [sync EXCEPT ![p] =
                   IF sy.hadActiveSession THEN [sy EXCEPT !.pc = "tabsQuery"]
                   ELSE SyncCall(p, sy, TS)]
  /\ UNCHANGED <<trackerVars, storageVars, clockVars, tabVars, lookups, online, sideVars, backendRows>>

\* performSync's tabs.query resolves: endCurrentSession(), then sync is called
TabsQueryResolved(p) ==
  /\ sync[p].pc = "tabsQuery"
  /\ LET T == endCurrentSession(TS)
         sy == [sync[p] EXCEPT
                  !.activeTabInfo = IF activeTab # NoTab THEN TabObj(activeTab) ELSE NULL]
     IN /\ SetTracker(T)
        /\ sync' = [sync EXCEPT ![p] = SyncCall(p, sy, T)]
  /\ UNCHANGED <<isIdle, config, storageVars, clockVars, tabVars, lookups, online, sideVars,
                 syncs, backendRows>>

\* the fetch of validateUser resolves; then the navigator.onLine check
ValidateResolved(p, outcome) ==
  /\ sync[p].pc = "validating"
  /\ sync' = [sync EXCEPT ![p] =
       IF outcome # "valid"
       THEN [@ EXCEPT !.pc = "archiveGet", !.path = "invalid", !.got = archive,
                      !.userValid = "no",
                      !.error = CASE outcome = "notAuthorized" -> ErrNotAuthorized
                                  [] outcome = "httpError" -> ErrValidationHttp
                                  [] OTHER -> ErrNetwork]
       ELSE IF ~ online
       THEN [@ EXCEPT !.pc = "queueGet", !.path = "offline", !.error = ErrOffline,
                      !.got = failedSyncs, !.onLine = FALSE, !.userValid = "yes"]
       ELSE [@ EXCEPT !.pc = "sending", !.inserts = 1, !.onLine = TRUE,
                      !.userValid = "yes",
                      !.got = Rows(Sessions(p), sync[p].config)]]
  /\ UNCHANGED <<trackerVars, storageVars, clockVars, tabVars, lookups, online, sideVars,
                 syncs, backendRows>>

\* the fetch of sendToApi resolves
SendResolved(p, outcome) ==
  /\ sync[p].pc = "sending"
  /\ IF outcome = "ok"
     THEN /\ backendRows' = backendRows \o sync[p].got
          /\ sync' = [sync EXCEPT ![p] =
                        [@ EXCEPT !.pc = "archiveGet", !.path = "synced", !.got = archive]]
     ELSE /\ backendRows' = backendRows
          /\ sync' = [sync EXCEPT ![p] =
                        [@ EXCEPT !.pc = "queueGet", !.path = "failed", !.got = failedSyncs,
                                  !.error = IF outcome = "non2xx" THEN ErrApiHttp
                                            ELSE ErrNetwork]]
  /\ UNCHANGED <<trackerVars, storageVars, clockVars, tabVars, lookups, online, sideVars, syncs>>

\* archiveLocally: storage.get resolved; map, push and storage.set
ArchiveGetResolved(p) ==
  /\ sync[p].pc = "archiveGet"
  /\ archive' = archiveLocally(sync[p].got, Sessions(p))
  /\ sync' = [sync EXCEPT ![p] = [@ EXCEPT !.pc = "archiveSet", !.got = <<>>]]
  /\ UNCHANGED <<trackerVars, failedSyncs, clockVars, tabVars, lookups, online, sideVars,
                 syncs, backendRows>>

\* archiveLocally returned
ArchiveSetResolved(p) ==
  /\ sync[p].pc = "archiveSet"
  /\ LET n == Len(Sessions(p))
     IN CASE sync[p].path = "local" ->
               /\ sync' = [sync EXCEPT ![p] =
                    [@ EXCEPT !.pc = "returned",
                       !.result = [success |-> TRUE, synced |-> 0, archived |-> n]]]
               /\ UNCHANGED failedSyncs
          [] sync[p].path = "invalid" ->
               /\ sync' = [sync EXCEPT ![p] =
                    [@ EXCEPT !.pc = "returned",
                       !.result = [success |-> FALSE, error |-> sync[p].error,
                                   archived |-> n]]]
               /\ UNCHANGED failedSyncs
          [] OTHER ->
               \* storage.local.remove('failedSyncs')
               /\ sync' = [sync EXCEPT ![p] = [@ EXCEPT !.pc = "removing"]]
               /\ failedSyncs' = <<>>
  /\ UNCHANGED <<trackerVars, archive, clockVars, tabVars, lookups, online, sideVars,
                 syncs, backendRows>>

\* the removal resolved: pruneArchive issues its storage.get
RemoveResolved(p) ==
  /\ sync[p].pc = "removing"
  /\ sync' = [sync EXCEPT ![p] = [@ EXCEPT !.pc = "pruneGet", !.got = archive]]
  /\ UNCHANGED <<trackerVars, storageVars, clockVars, tabVars, lookups, online, sideVars,
                 syncs, backendRows>>

\* pruneArchive: storage.get resolved; filter, and storage.set if any was removed
PruneGetResolved(p) ==
  /\ sync[p].pc = "pruneGet"
  /\ LET prunedArchive == pruneArchive(sync[p].got, sync[p].config.archiveRetentionDays)
         removed == Len(sync[p].got) - Len(prunedArchive)
     IN IF removed > 0
        THEN /\ archive' = prunedArchive
             /\ sync' = [sync EXCEPT ![p] = [@ EXCEPT !.pc = "pruneSet", !.got = <<>>]]
        ELSE /\ archive' = archive
             /\ sync' = [sync EXCEPT ![p] =
                  [@ EXCEPT !.pc = "returned", !.got = <<>>,
                     !.result = [success |-> TRUE, synced |-> Len(Sessions(p))]]]
  /\ UNCHANGED <<trackerVars, failedSyncs, clockVars, tabVars, lookups, online, sideVars,
                 syncs, backendRows>>

PruneSetResolved(p) ==
  /\ sync[p].pc = "pruneSet"
  /\ sync' = [sync EXCEPT ![p] =
       [@ EXCEPT !.pc = "returned",
          !.result = [success |-> TRUE, synced |-> Len(Sessions(p))]]]
  /\ UNCHANGED <<trackerVars, storageVars, clockVars, tabVars, lookups, online, sideVars,
                 syncs, backendRows>>

\* queueFailedSync: storage.get resolved; filter, push and storage.set
QueueGetResolved(p) ==
  /\ sync[p].pc = "queueGet"
  /\ failedSyncs' = queueFailedSync(sync[p].got, Sessions(p))
  /\ sync' = [sync EXCEPT ![p] = [@ EXCEPT !.pc = "queueSet", !.got = <<>>]]
  /\ UNCHANGED <<trackerVars, archive, clockVars, tabVars, lookups, online, sideVars,
                 syncs, backendRows>>

\* queueFailedSync returned
QueueSetResolved(p) ==
  /\ sync[p].pc = "queueSet"
  /\ sync' = [sync EXCEPT ![p] =
       [@ EXCEPT !.pc = "returned",
          !.result = [success |-> FALSE, error |-> sync[p].error,
                      queued |-> Len(Sessions(p))]]]
  /\ UNCHANGED <<trackerVars, storageVars, clockVars, tabVars, lookups, online, sideVars,
                 syncs, backendRows>>

\* mutant: the session is restarted only when nothing was synced
RestartSession_OnlyAfterFailure(T, sy) ==
  IF sy.hadActiveSession /\ sy.activeTabInfo # NULL /\ isTrackableUrl(sy.activeTabInfo.url)
     /\ ~ sy.result.success
  THEN startSession(T, sy.activeTabInfo)
  ELSE T

\* "Restart session if there was an active one", the end of performSync
RestartSession(T, sy) ==
  IF sy.hadActiveSession /\ sy.activeTabInfo # NULL /\ isTrackableUrl(sy.activeTabInfo.url)
  THEN startSession(T, sy.activeTabInfo)
  ELSE T


\* SyncManager.sync returned to performSync
SyncReturned(p) ==
  /\ sync[p].pc = "returned"
  /\ IF sync[p].result.success
     THEN \* TrackerState.pendingSessions = []; await savePendingSessions()
          /\ pendingSessions' = <<>>
          /\ stPending' = <<>>
          /\ sync' = [Unalias(sync) EXCEPT ![p].pc = "saving"]
          /\ UNCHANGED <<currentSession, openCount>>
     ELSE /\ SetTracker(RestartSession(TS, sync[p]))
          /\ sync' = [sync EXCEPT ![p] = IdleProc]
  /\ UNCHANGED <<isIdle, config, storageVars, clockVars, tabVars, lookups, online, sideVars,
                 syncs, backendRows>>

\* savePendingSessions resolved
SaveResolved(p) ==
  /\ sync[p].pc = "saving"
  /\ SetTracker(RestartSession(TS, sync[p]))
  /\ sync' = [sync EXCEPT ![p] = IdleProc]
  /\ UNCHANGED <<isIdle, config, storageVars, clockVars, tabVars, lookups, online, sideVars,
                 syncs, backendRows>>

\* navigator.onLine changes
OnlineChanges ==
  /\ online' = ~ online
  /\ UNCHANGED <<trackerVars, storageVars, clockVars, tabVars, lookups, syncVars, sideVars>>

ValidationOutcomes == {"valid", "notAuthorized", "httpError", "networkError"}
SendOutcomes == {"ok", "non2xx", "networkError"}

\* DEFAULT_CONFIG, and the stored configurations the model starts from
DefaultConfig ==
  [apiEndpoint |-> "", apiKey |-> "", userId |-> "",
   idleDetectionEnabled |-> FALSE, idleThresholdMinutes |-> DefaultThresholdMinutes,
   archiveRetentionDays |-> DefaultRetentionDays]
Configs ==
  {[DefaultConfig EXCEPT !.apiEndpoint = e, !.apiKey = k, !.userId = u,
                         !.idleDetectionEnabled = i] :
     e \in {"", "https://x.supabase.co"}, k \in {"", "key"}, u \in {"", "user"},
     i \in BOOLEAN}

\* mutant: the apiKey of a is kept
Merge_KeepsApiKey(a, b) ==
  [f \in DOMAIN a \cup DOMAIN b |-> IF f \in DOMAIN b /\ f # "apiKey" THEN b[f] ELSE a[f]]

\* { ...a, ...b }: the fields of b, and those of a that b does not have
Merge(a, b) ==
  [f \in DOMAIN a \cup DOMAIN b |-> IF f \in DOMAIN b THEN b[f] ELSE a[f]]

\* setupIdleDetection: the detection interval of browser.idle afterwards
setupIdleDetection(c, thresholdSeconds, interval) ==
  IF c.idleDetectionEnabled THEN thresholdSeconds ELSE interval

\* no clearData request is being served; before (ghost) is the set of sessions
\* stored or pending when the request arrived
NoClear == [pc |-> "idle", before |-> {}]

\* no getStats request is being served
NoStats == [pc |-> "idle", todayStart |-> 0, archivedSessions |-> <<>>, result |-> NULL]

\* initialize() is called when the script loads and by the onInstalled listener
InitProcs == {"startup", "installed"}
NotInitializing == [pc |-> "idle", gotId |-> NoDeviceId, gotPending |-> <<>>]

\* initialize() has run to its end; the device id was generated by it or by an
\* earlier run, and no further call of initialize() is modelled
Initialized ==
  /\ deviceId = 1
  /\ stDeviceId = 1
  /\ uuids = 1
  /\ initialized = TRUE
  /\ init = [q \in InitProcs |-> [NotInitializing EXCEPT !.pc = "done"]]

\* SyncManager.sync has returned and the continuation of performSync is queued
\* as a microtask: it runs before any further event callback
Resuming == \E p \in Procs : sync[p].pc = "returned"

\* no performSync is in flight
SyncQuiet == \A p \in Procs : sync[p].pc = "idle"

\* nothing in flight, nothing queued, online: what every initial state has
InitQuiet ==
  /\ isIdle = FALSE
  /\ failedSyncs = <<>>
  /\ clockBacks = 0
  /\ lookups = <<>>
  /\ online = TRUE
  /\ sync = [p \in Procs |-> IdleProc]
  /\ syncs = 0
  /\ backendRows = <<>>
  /\ stats = NoStats
  /\ clear = NoClear
  /\ focused = TRUE
  /\ unhandled = {}

\* the state after initialize(), from the stored configuration and archive
InitFrom(configs, archives) ==
  /\ InitQuiet
  /\ Initialized
  /\ currentSession = NULL
  /\ pendingSessions = <<>>
  /\ config \in configs
  /\ stConfig = config
  /\ idleThresholdSeconds = config.idleThresholdMinutes * 60
  /\ detectionInterval = setupIdleDetection(config, idleThresholdSeconds, DefaultDetectionInterval)
  /\ stPending = <<>>
  /\ archive \in archives
  /\ now = 0
  /\ tab1Url \in Tab1Urls
  /\ tab1Title = "A"
  /\ activeTab \in TabIds
  /\ openCount = 0

InitWith(configs) == InitFrom(configs, {<<>>})

(***************************************************************************)
(* Spec: the session tracker under every tab, focus and idle event, with   *)
(* performSync (sync not configured: sessions are archived locally)        *)
(* interleaved with them at each of its awaits.                            *)
(***************************************************************************)
Unconfigured == [DefaultConfig EXCEPT !.idleDetectionEnabled = FALSE]
UnconfiguredIdle == [DefaultConfig EXCEPT !.idleDetectionEnabled = TRUE]

Init == InitWith({Unconfigured, UnconfiguredIdle})

Next ==
  \/ Tick
  \/ ~ Resuming /\ \E t \in TabIds : OnActivated(t)
  \/ ~ Resuming /\ LookupResolves
  \/ ~ Resuming /\ \E u \in Tab1Urls : OnUpdatedUrl(u)
  \/ ~ Resuming /\ \E t \in TabIds : OnRemoved(t)
  \/ ~ Resuming /\ OnFocusLost
  \/ ~ Resuming /\ OnFocusGained
  \/ ~ Resuming /\ \E state \in {"idle", "locked", "active"} : OnIdleState(state)
  \/ PerformSync("alarm")
  \/ TabsQueryResolved("alarm")
  \/ ArchiveGetResolved("alarm")
  \/ ArchiveSetResolved("alarm")
  \/ SyncReturned("alarm")
  \/ SaveResolved("alarm")

Spec == Init /\ [][Next]_vars

(***************************************************************************)
(* SpecSync: performSync under every configuration and every outcome of    *)
(* the validation and insert requests, with a wall clock that may be set   *)
(* back; each invocation runs to its end before the next event is handled. *)
(***************************************************************************)
Configured == [DefaultConfig EXCEPT !.apiEndpoint = "https://x.supabase.co",
                                    !.apiKey = "key", !.userId = "user"]
ConfiguredNoUser == [Configured EXCEPT !.userId = ""]
KeyMissing == [Configured EXCEPT !.apiKey = ""]

InitSync == InitWith({Unconfigured, KeyMissing, ConfiguredNoUser, Configured})

NextSync ==
  \/ SyncQuiet /\ Tick
  \/ SyncQuiet /\ ClockBack
  \/ SyncQuiet /\ \E t \in TabIds : OnActivated(t)
  \/ SyncQuiet /\ LookupResolves
  \/ SyncQuiet /\ OnFocusLost
  \/ SyncQuiet /\ OnlineChanges
  \/ PerformSync("alarm")
  \/ TabsQueryResolved("alarm")
  \/ \E outcome \in ValidationOutcomes : ValidateResolved("alarm", outcome)
  \/ \E outcome \in SendOutcomes : SendResolved("alarm", outcome)
  \/ ArchiveGetResolved("alarm")
  \/ ArchiveSetResolved("alarm")
  \/ RemoveResolved("alarm")
  \/ PruneGetResolved("alarm")
  \/ QueueGetResolved("alarm")
  \/ QueueSetResolved("alarm")
  \/ SyncReturned("alarm")
  \/ SaveResolved("alarm")

SpecSync == InitSync /\ [][NextSync]_vars

(***************************************************************************)
(* Vocabulary of the properties.                                           *)
(***************************************************************************)
\* the invocation the properties of SpecSync speak of, and the state in which
\* SyncManager.sync has just returned to it
R == sync["alarm"]
Returned == R.pc = "returned"
N == Len(R.input)

\* an archive entry without its archivedAt stamp
Unstamped(a) ==
  [url |-> a.url, domain |-> a.domain, title |-> a.title,
   startTimestamp |-> a.startTimestamp, endTimestamp |-> a.endTimestamp,
   durationSeconds |-> a.durationSeconds, tabId |-> a.tabId, incognito |-> a.incognito]

InArchive(s) == \E j \in 1..Len(archive) : Unstamped(archive[j]) = s
InFailedQueue(s) == \E j \in 1..Len(failedSyncs) : failedSyncs[j] = s
InPending(s) == \E j \in 1..Len(pendingSessions) : pendingSessions[j] = s
TimesArchived(s) == Cardinality({j \in 1..Len(archive) : Unstamped(archive[j]) = s})

\* the archive is what it was at the call, followed by the N input sessions
ArchivedAllInput ==
  /\ Len(archive) = Len(R.archive0) + N
  /\ \A j \in 1..Len(R.archive0) : archive[j] = R.archive0[j]
  /\ \A i \in 1..N : /\ Unstamped(archive[Len(R.archive0) + i]) = R.input[i]
                     /\ archive[Len(R.archive0) + i].archivedAt = now

(***************************************************************************)
(* C1: at most one session is open at any time: the sessions opened and    *)
(* not yet ended are exactly the one in the current-session slot, if any   *)
(* (startSession ends the existing one before it opens another); and       *)
(* endCurrentSession with no session open (here: on focus loss) changes    *)
(* neither the current session, the pending buffer nor the persisted one.  *)
(***************************************************************************)
C1_OpenSessions == openCount = (IF currentSession = NULL THEN 0 ELSE 1)
C1_EndWithoutSessionIsNoOp ==
  (currentSession = NULL /\ OnFocusLost)
    => UNCHANGED <<currentSession, pendingSessions, stPending, openCount>>
\* C1: at most one session is open at any time, and ending with none open
\* changes nothing
C1_AtMostOneOpenSession == [] C1_OpenSessions /\ [][C1_EndWithoutSessionIsNoOp]_vars

\* a session is open that startSession opened in the very step that closed the
\* previous one into the pending buffer
C1_Witness ==
  /\ currentSession # NULL
  /\ pendingSessions # <<>>
  /\ pendingSessions[Len(pendingSessions)].endTimestamp = currentSession.startTimestamp
  /\ pendingSessions[Len(pendingSessions)].tabId # currentSession.tabId

(***************************************************************************)
(* C2: endCurrentSession (here: on focus loss) always clears the current-  *)
(* session slot, and appends the session, closed at the clock's reading,   *)
(* to the pending buffer exactly when that reading is at least one second  *)
(* after its start; so every session in the pending buffer is closed with  *)
(* endTimestamp >= startTimestamp and durationSeconds = endTimestamp -     *)
(* startTimestamp >= 1, also when the clock was set back.                  *)
(***************************************************************************)
C2_PendingClosed ==
  \A i \in 1..Len(pendingSessions) :
    LET s == pendingSessions[i]
    IN /\ s.endTimestamp # NullTimestamp
       /\ s.endTimestamp >= s.startTimestamp
       /\ s.durationSeconds = s.endTimestamp - s.startTimestamp
       /\ s.durationSeconds >= 1
C2_EndAppendsIffOneSecond ==
  (currentSession # NULL /\ OnFocusLost)
    => /\ currentSession' = NULL
       /\ IF now - currentSession.startTimestamp >= 1
          THEN pendingSessions' =
                 Append(pendingSessions,
                        [currentSession EXCEPT
                           !.endTimestamp = now,
                           !.durationSeconds = now - currentSession.startTimestamp])
          ELSE pendingSessions' = pendingSessions
\* C2: a session is appended on its end exactly when it lasted at least one
\* second, and every pending session is closed with duration = end - start >= 1
C2_PendingAtLeastOneSecond == [] C2_PendingClosed /\ [][C2_EndAppendsIffOneSecond]_vars

\* no session is open, a session of one second is in the buffer, and the clock
\* was set back to before its end
C2_Witness ==
  /\ clockBacks > 0
  /\ currentSession = NULL
  /\ Len(pendingSessions) = 1
  /\ pendingSessions[1].durationSeconds = 1
  /\ pendingSessions[1].endTimestamp > now

(***************************************************************************)
(* C3: zero data loss inside sync: once SyncManager.sync has returned from *)
(* a call with a non-empty list, whatever the configuration and the        *)
(* outcomes of its requests, every session it was given is in the archive  *)
(* or in the failed-sync queue.                                            *)
(***************************************************************************)
C3_ZeroDataLoss ==
  (Returned /\ N >= 1)
    => \A i \in 1..N : InArchive(R.input[i]) \/ InFailedQueue(R.input[i])

(***************************************************************************)
(* C4: after a sync whose transmission succeeded the failed-sync queue is  *)
(* empty and every session that was passed in is in the archive exactly    *)
(* once; performSync then empties the pending buffer, and a sync of the     *)
(* emptied buffer adds nothing to the archive.  Sessions are told apart by *)
(* their fields, so the count is taken while the clock has never been set  *)
(* back (until then no two recorded sessions are equal).                   *)
(***************************************************************************)
C4_Transmitted == Returned /\ R.path = "synced"
C4_ArchivedOnce ==
  (C4_Transmitted /\ clockBacks = 0)
    => /\ failedSyncs = <<>>
       /\ \A i \in 1..N : TimesArchived(R.input[i]) = 1
C4_PendingEmptied ==
  (C4_Transmitted /\ SyncReturned("alarm")) => pendingSessions' = <<>> /\ stPending' = <<>>
C4_RetryAddsNothing == (Returned /\ N = 0) => archive = R.archive0
\* C4: a transmitted batch empties the queue and is archived exactly once; the
\* buffer is then emptied and a sync of the empty buffer archives nothing
C4_SuccessfulSyncArchivesOnce ==
  [] (C4_ArchivedOnce /\ C4_RetryAddsNothing) /\ [][C4_PendingEmptied]_vars

(***************************************************************************)
(* C5: no cross-duplication between pending and archive: whenever no       *)
(* performSync is running, after any number of them with any outcomes, no  *)
(* session is both in the pending buffer and in the archive, and no        *)
(* session is in the archive twice.  Sessions are told apart by their      *)
(* fields, so the states looked at are those in which the clock has never  *)
(* been set back.                                                          *)
(***************************************************************************)
C5_NoCrossDuplication ==
  (SyncQuiet /\ clockBacks = 0)
    => /\ \A i \in 1..Len(pendingSessions) : ~ InArchive(pendingSessions[i])
       /\ \A j, k \in 1..Len(archive) :
            j # k => Unstamped(archive[j]) # Unstamped(archive[k])

(***************************************************************************)
(* C6: a sync of N >= 1 sessions with endpoint and key configured, while   *)
(* the online flag is false.  As the specification has it, the result is   *)
(* {success: false, error: 'offline', queued: N}, the pending buffer and   *)
(* the archive are unchanged and the failed-sync queue grows by N.         *)
(***************************************************************************)
C6_Offline == Returned /\ N >= 1 /\ ApiConfigured(R.config) /\ ~ online
\* C6 (as specified): offline result, pending and archive unchanged, the queue
\* N entries longer
C6_OfflineQueueGrowsByN ==
  C6_Offline
    => /\ R.result = [success |-> FALSE, error |-> "offline", queued |-> N]
       /\ pendingSessions = R.input
       /\ archive = R.archive0
       /\ Len(failedSyncs) = Len(R.failed0) + N

(***************************************************************************)
(* C6, as the code has it: the user is validated before the online flag is *)
(* read, so the offline result needs the validation to have succeeded; and *)
(* the queue grows by the input sessions whose start-timestamp it did not  *)
(* hold yet (by N when it held none), while the result still says          *)
(* queued: N.  The pending buffer is not cleared by performSync, nothing   *)
(* is transmitted and the archive is unchanged.                            *)
(***************************************************************************)
C6_NewToQueue(s) ==
  \A j \in 1..Len(R.failed0) : R.failed0[j].startTimestamp # s.startTimestamp
C6_OfflineQueued ==
  (C6_Offline /\ R.userValid = "yes")
    => /\ R.result = [success |-> FALSE, error |-> "offline", queued |-> N]
       /\ pendingSessions = R.input
       /\ archive = R.archive0
       /\ R.inserts = 0
       /\ backendRows = R.rows0
       /\ failedSyncs = R.failed0 \o SelectSeq(R.input, C6_NewToQueue)
C6_PendingKept ==
  (C6_Offline /\ R.userValid = "yes" /\ SyncReturned("alarm"))
    => pendingSessions' = pendingSessions /\ stPending' = stPending
\* C6 (as the code has it): after a successful validation, offline result,
\* pending kept, archive unchanged, the queue longer by the sessions new to it
C6_OfflineQueuesNewSessions == [] C6_OfflineQueued /\ [][C6_PendingKept]_vars

\* a retry while still offline: the batch was queued before, the queue does
\* not grow
C6_Witness ==
  /\ C6_Offline
  /\ R.userValid = "yes"
  /\ R.failed0 # <<>>
  /\ failedSyncs = R.failed0

(***************************************************************************)
(* C7: when the validation of the user fails (empty user id, not           *)
(* allowlisted, the validation request failing with a network or non-2xx   *)
(* error), sync archives all N input sessions, transmits no session rows,  *)
(* leaves the failed-sync queue unchanged and returns success: false with  *)
(* the validation error and archived = N.                                  *)
(***************************************************************************)
C7_ValidationErrors ==
  IF R.config.userId = "" THEN {ErrUserIdNotSet}
  ELSE {ErrNotAuthorized, ErrValidationHttp, ErrNetwork}
\* C7: a failed validation archives the N sessions, transmits none, leaves the
\* queue alone and returns success: false, the validation error, archived: N
C7_InvalidUserArchives ==
  (Returned /\ N >= 1 /\ R.userValid = "no")
    => /\ ArchivedAllInput
       /\ R.inserts = 0
       /\ backendRows = R.rows0
       /\ failedSyncs = R.failed0
       /\ R.error \in C7_ValidationErrors
       /\ R.result = [success |-> FALSE, error |-> R.error, archived |-> N]

\* the validation request itself failed, on a sync of two sessions
C7_Witness ==
  /\ Returned
  /\ R.userValid = "no"
  /\ R.validations = 1
  /\ R.error = ErrNetwork
  /\ N = 2

(***************************************************************************)
(* C8: sync called with N >= 1 sessions and a configuration lacking the    *)
(* endpoint or the key appends the N sessions to the archive, each stamped *)
(* with archivedAt, makes no network call, leaves the failed-sync queue    *)
(* unchanged and returns success with synced = 0 and archived = N.         *)
(***************************************************************************)
C8_UnconfiguredArchives ==
  (Returned /\ N >= 1 /\ (R.config.apiEndpoint = "" \/ R.config.apiKey = ""))
    => /\ ArchivedAllInput
       /\ R.validations = 0
       /\ R.inserts = 0
       /\ backendRows = R.rows0
       /\ failedSyncs = R.failed0
       /\ R.result = [success |-> TRUE, synced |-> 0, archived |-> N]

\* the endpoint is set, the key is not
C8_Witness ==
  /\ Returned
  /\ N >= 1
  /\ R.config.apiEndpoint # ""
  /\ R.config.apiKey = ""

(***************************************************************************)
(* C9: sync called with an empty list returns {success: true, synced: 0}   *)
(* under every configuration, makes neither a validation nor an insert     *)
(* request, and leaves the archive and the failed-sync queue unchanged.    *)
(***************************************************************************)
C9_EmptyListIsNoOp ==
  (Returned /\ N = 0)
    => /\ R.result = [success |-> TRUE, synced |-> 0]
       /\ R.validations = 0
       /\ R.inserts = 0
       /\ backendRows = R.rows0
       /\ archive = R.archive0
       /\ failedSyncs = R.failed0

\* an empty list under a complete configuration, after a sync that archived
C9_Witness ==
  /\ Returned
  /\ N = 0
  /\ ApiConfigured(R.config)
  /\ R.config.userId # ""
  /\ archive # <<>>

(***************************************************************************)
(* C10: no two entries of the failed-sync queue have the same              *)
(* start-timestamp, whatever the calls of queueFailedSync that built it.   *)
(***************************************************************************)
C10_QueueTimestampsDistinct ==
  \A j, k \in 1..Len(failedSyncs) :
    j # k => failedSyncs[j].startTimestamp # failedSyncs[k].startTimestamp

(***************************************************************************)
(* SpecPrune: pruneArchive on its own.  The stored archive is any sequence  *)
(* of up to MaxArchive entries whose start and archival times lie around   *)
(* the cutoff to come; the clock ticks and jumps a retention period, and   *)
(* pruneArchive is called with the configured retention.                   *)
(***************************************************************************)
ArchiveTimes == {0, 1, 2}

ArchiveEntry(st, at) ==
  Archived([url |-> UrlA, domain |-> extractDomain(UrlA), title |-> "A",
            startTimestamp |-> st, endTimestamp |-> st + 1, durationSeconds |-> 1,
            tabId |-> 1, incognito |-> FALSE], at)

ArchiveEntries == {ArchiveEntry(st, at) : st \in ArchiveTimes, at \in ArchiveTimes}

StoredArchives == UNION {[1..n -> ArchiveEntries] : n \in 0..MaxArchive}

\* pruneArchive is called: it issues its storage.get
PruneArchiveCalled(p) ==
  /\ SyncQuiet
  /\ syncs < MaxSyncs
  /\ syncs' = syncs + 1
  /\ sync' = [sync EXCEPT ![p] =
       [IdleProc EXCEPT !.pc = "pruneGet", !.path = "prune", !.got = archive,
                        !.config = config, !.archive0 = archive]]
  /\ UNCHANGED <<trackerVars, storageVars, clockVars, tabVars, lookups, online, sideVars, backendRows>>

\* pruneArchive returned to a caller that only waited for it
PruneReturned(p) ==
  /\ sync[p].pc = "returned"
  /\ sync[p].path = "prune"
  /\ sync' = [sync EXCEPT ![p] = IdleProc]
  /\ UNCHANGED <<trackerVars, storageVars, clockVars, tabVars, lookups, online, sideVars,
                 syncs, backendRows>>

InitPrune == InitFrom({Configured}, StoredArchives)

NextPrune ==
  \/ SyncQuiet /\ Tick
  \/ SyncQuiet /\ ClockJump
  \/ PruneArchiveCalled("alarm")
  \/ PruneGetResolved("alarm")
  \/ PruneSetResolved("alarm")
  \/ PruneReturned("alarm")

SpecPrune == InitPrune /\ [][NextPrune]_vars

(***************************************************************************)
(* C11 (as specified): pruneArchive removes an entry only when both its    *)
(* archivedAt and its startTimestamp predate now - retentionDays * 86400,  *)
(* retains every entry one of whose timestamps is more recent, and keeps   *)
(* the retained entries in their order.                                    *)
(***************************************************************************)
C11_Pruned == R.path = "prune" /\ R.pc \in {"pruneSet", "returned"}
C11_Cutoff == now - R.config.archiveRetentionDays * DaySeconds
C11_BothPredate(a) == a.archivedAt < C11_Cutoff /\ a.startTimestamp < C11_Cutoff
C11_NeitherAfter(a) == a.archivedAt <= C11_Cutoff /\ a.startTimestamp <= C11_Cutoff
InitRetention == InitWith({Unconfigured, ConfiguredNoUser, Configured})

NextRetention ==
  \/ SyncQuiet /\ Tick
  \/ SyncQuiet /\ ClockJump
  \/ SyncQuiet /\ \E t \in TabIds : OnActivated(t)
  \/ SyncQuiet /\ LookupResolves
  \/ SyncQuiet /\ OnFocusLost
  \/ PerformSync("alarm")
  \/ TabsQueryResolved("alarm")
  \/ \E outcome \in ValidationOutcomes : ValidateResolved("alarm", outcome)
  \/ \E outcome \in SendOutcomes : SendResolved("alarm", outcome)
  \/ ArchiveGetResolved("alarm")
  \/ ArchiveSetResolved("alarm")
  \/ RemoveResolved("alarm")
  \/ PruneGetResolved("alarm")
  \/ PruneSetResolved("alarm")
  \/ QueueGetResolved("alarm")
  \/ QueueSetResolved("alarm")
  \/ SyncReturned("alarm")
  \/ SaveResolved("alarm")

SpecRetention == InitRetention /\ [][NextRetention]_vars

(***************************************************************************)
(* C12: the archive is cleaned up by retention age: when a sync that added *)
(* sessions to the archive (transmitted, archived for want of endpoint or  *)
(* key, archived after a failed validation) has returned, the archive      *)
(* holds no entry whose archivedAt and startTimestamp are both older than  *)
(* the configured retention period.                                        *)
(***************************************************************************)
C12_AddedToArchive == Returned /\ N >= 1 /\ R.path \in {"synced", "local", "invalid"}
C12_Expired(a) ==
  LET cutoff == now - R.config.archiveRetentionDays * DaySeconds
  IN a.archivedAt < cutoff /\ a.startTimestamp < cutoff
C12_ArchiveHoldsNoExpiredEntry ==
  C12_AddedToArchive => \A j \in 1..Len(archive) : ~ C12_Expired(archive[j])

(***************************************************************************)
(* getStats.  It reads the archive from storage (one await) and then folds *)
(* the pending buffer, the archive it was given and the live session.      *)
(* domainStats is an object keyed by domain: its rows are kept here in the *)
(* order the keys were inserted, which is the order Object.values returns. *)
(***************************************************************************)
\* Utils.getStartOfToday: local midnight, the days counted from the epoch
getStartOfToday == getCurrentTimestamp - (getCurrentTimestamp % DaySeconds)

RECURSIVE SumDurations(_)
SumDurations(ss) ==
  IF ss = <<>> THEN 0 ELSE Head(ss).durationSeconds + SumDurations(Tail(ss))

\* [...pendingSessions, ...archivedSessions] and the live session, closed as of now
AllSessions(T, archivedSessions) ==
  T.pendingSessions \o archivedSessions \o
    (IF T.currentSession # NULL
     THEN <<[T.currentSession EXCEPT
               !.endTimestamp = getCurrentTimestamp,
               !.durationSeconds = getCurrentTimestamp - T.currentSession.startTimestamp]>>
     ELSE <<>>)

RowOf(rows, domain) == CHOOSE i \in 1..Len(rows) : rows[i].domain = domain

FoldSession_KeepsFirstTitle(rows, session, todayStart) ==
  LET known == \E i \in 1..Len(rows) : rows[i].domain = session.domain
      rows1 == IF known THEN rows
               ELSE Append(rows, [domain |-> session.domain, totalSeconds |-> 0,
                                  todaySeconds |-> 0, sessions |-> 0,
                                  lastTitle |-> session.title])
      i == RowOf(rows1, session.domain)
  IN [rows1 EXCEPT
        ![i].totalSeconds = @ + session.durationSeconds,
        ![i].sessions = @ + 1,
        ![i].todaySeconds = IF session.startTimestamp >= todayStart
                            THEN @ + session.durationSeconds ELSE @]

\* the body of allSessions.forEach
FoldSession(rows, session, todayStart) ==
  LET known == \E i \in 1..Len(rows) : rows[i].domain = session.domain
      rows1 == IF known THEN rows
               ELSE Append(rows, [domain |-> session.domain, totalSeconds |-> 0,
                                  todaySeconds |-> 0, sessions |-> 0,
                                  lastTitle |-> session.title])
      i == RowOf(rows1, session.domain)
  IN [rows1 EXCEPT
        ![i].totalSeconds = @ + session.durationSeconds,
        ![i].sessions = @ + 1,
        ![i].lastTitle = session.title,
        ![i].todaySeconds = IF session.startTimestamp >= todayStart
                            THEN @ + session.durationSeconds ELSE @]

RECURSIVE DomainStats(_, _, _)
DomainStats(rows, ss, todayStart) ==
  IF ss = <<>> THEN rows
  ELSE DomainStats(FoldSession(rows, Head(ss), todayStart), Tail(ss), todayStart)

\* Array.prototype.sort with (a, b) => b.totalSeconds - a.totalSeconds: stable,
\* descending by totalSeconds
RECURSIVE InsertByTotal(_, _)
InsertByTotal(sorted, row) ==
  IF sorted = <<>> THEN <<row>>
  ELSE IF Head(sorted).totalSeconds >= row.totalSeconds
       THEN <<Head(sorted)>> \o InsertByTotal(Tail(sorted), row)
       ELSE <<row>> \o sorted

RECURSIVE SortByTotal(_, _)
SortByTotal(sorted, rows) ==
  IF rows = <<>> THEN sorted
  ELSE SortByTotal(InsertByTotal(sorted, Head(rows)), Tail(rows))

\* getStats after its storage.get
getStats(T, todayStart, archivedSessions) ==
  LET allSessions == AllSessions(T, archivedSessions)
      todaySessions == SelectSeq(allSessions, LAMBDA s : s.startTimestamp >= todayStart)
  IN [todayTotal |-> SumDurations(todaySessions),
      allTimeTotal |-> SumDurations(allSessions),
      sites |-> SortByTotal(<<>>, DomainStats(<<>>, allSessions, todayStart)),
      pendingCount |-> Len(T.pendingSessions),
      currentSession |->
        IF T.currentSession # NULL
        THEN [domain |-> T.currentSession.domain,
              durationSeconds |-> getCurrentTimestamp - T.currentSession.startTimestamp]
        ELSE NULL]

\* the getStats message arrives: todayStart is taken, the archive is asked for
GetStatsCalled ==
  /\ stats.pc = "idle"
  /\ stats' = [NoStats EXCEPT !.pc = "archiveGet", !.todayStart = getStartOfToday,
                              !.archivedSessions = archive]
  /\ UNCHANGED <<trackerVars, storageVars, clockVars, tabVars, lookups, online, syncVars,
                 initVars, stConfig, clear, focused, idleVars, unhandled>>

\* the storage.get resolved: the statistics are computed and sent
GetStatsResolved ==
  /\ stats.pc = "archiveGet"
  /\ stats' = [stats EXCEPT !.pc = "sent",
                            !.result = getStats(TS, stats.todayStart, stats.archivedSessions)]
  /\ UNCHANGED <<trackerVars, storageVars, clockVars, tabVars, lookups, online, syncVars,
                 initVars, stConfig, clear, focused, idleVars, unhandled>>

\* the popup has the response
GetStatsReceived ==
  /\ stats.pc = "sent"
  /\ stats' = NoStats
  /\ UNCHANGED <<trackerVars, storageVars, clockVars, tabVars, lookups, online, syncVars,
                 initVars, stConfig, clear, focused, idleVars, unhandled>>

(***************************************************************************)
(* SpecStats: sessions are recorded over two days and synced (unconfigured, *)
(* without user, or configured and accepted); at any moment, also between  *)
(* two steps of performSync, the popup asks for the statistics.            *)
(***************************************************************************)
StatsQuiet == stats.pc = "idle"

InitStats == InitWith({Unconfigured, ConfiguredNoUser, Configured})

NextStats ==
  \/ SyncQuiet /\ StatsQuiet /\ Tick
  \/ SyncQuiet /\ StatsQuiet /\ ClockJump
  \/ SyncQuiet /\ StatsQuiet /\ \E t \in TabIds : OnActivated(t)
  \/ SyncQuiet /\ StatsQuiet /\ LookupResolves
  \/ SyncQuiet /\ StatsQuiet /\ OnFocusLost
  \/ PerformSync("alarm")
  \/ TabsQueryResolved("alarm")
  \/ ValidateResolved("alarm", "valid")
  \/ SendResolved("alarm", "ok")
  \/ ArchiveGetResolved("alarm")
  \/ ArchiveSetResolved("alarm")
  \/ RemoveResolved("alarm")
  \/ PruneGetResolved("alarm")
  \/ PruneSetResolved("alarm")
  \/ SyncReturned("alarm")
  \/ SaveResolved("alarm")
  \/ ~ Resuming /\ GetStatsCalled
  \/ ~ Resuming /\ GetStatsResolved
  \/ ~ Resuming /\ GetStatsReceived

SpecStats == InitStats /\ [][NextStats]_vars

(***************************************************************************)
(* Vocabulary of the statistics properties.                                *)
(***************************************************************************)
StatsSent == stats.pc = "sent"

\* the sum of the durations of a set of sessions
RECURSIVE SumOver(_)
SumOver(S) ==
  IF S = {} THEN 0
  ELSE LET x == CHOOSE y \in S : TRUE IN x.durationSeconds + SumOver(S \ {x})

StartedToday(S) == {s \in S : s.startTimestamp >= stats.todayStart}

\* the live session, closed as of now
LiveSessions ==
  IF currentSession = NULL THEN {}
  ELSE {[currentSession EXCEPT !.endTimestamp = now,
                               !.durationSeconds = now - currentSession.startTimestamp]}

\* the sessions tracked so far, each once: pending, archived, live
TrackedSessions ==
  {pendingSessions[i] : i \in 1..Len(pendingSessions)}
    \cup {Unstamped(archive[j]) : j \in 1..Len(archive)}
    \cup LiveSessions

(***************************************************************************)
(* C13: the statistics getStats sends: pendingCount is the length of the   *)
(* pending buffer, allTimeTotal the sum of the durations of the sessions   *)
(* in pending, archive and the live one (closed as of now), todayTotal the *)
(* sum over those started at or after local midnight, each tracked session *)
(* counted once.                                                           *)
(***************************************************************************)
C13_Totals ==
  GetStatsResolved
    => /\ stats'.result.pendingCount = Len(pendingSessions)
       /\ stats'.result.allTimeTotal = SumOver(TrackedSessions)
       /\ stats'.result.todayTotal = SumOver(StartedToday(TrackedSessions))
C13_TotalsCountEachSessionOnce == [][C13_Totals]_vars

(***************************************************************************)
(* SpecFold: getStats on its own, on the second day of tracking.  The      *)
(* pending buffer and the archive hold any sessions of yesterday and       *)
(* today on two domains and under two titles, a session may be live.       *)
(***************************************************************************)
StatsNow == DaySeconds + 2
StatsStarts == {DaySeconds - 3, DaySeconds}

\* a closed session; those on a.com last one second, those on b.com two
StatsSession(url, title, st) ==
  LET d == IF url = UrlA THEN 1 ELSE 2
  IN [url |-> url, domain |-> extractDomain(url), title |-> title,
      startTimestamp |-> st, endTimestamp |-> st + d, durationSeconds |-> d,
      tabId |-> 1, incognito |-> FALSE]

StatsSessions ==
  {StatsSession(url, title, st) :
     url \in {UrlA, UrlB}, title \in Tab1Titles, st \in StatsStarts}

\* a session opened a second ago on tab 1
StatsLive(title) ==
  [url |-> UrlA, domain |-> extractDomain(UrlA), title |-> title,
   startTimestamp |-> StatsNow - 1, endTimestamp |-> NullTimestamp,
   durationSeconds |-> 0, tabId |-> 1, incognito |-> FALSE]

InitFold ==
  /\ InitQuiet
  /\ Initialized
  /\ config = Unconfigured
  /\ stConfig = config
  /\ idleThresholdSeconds = config.idleThresholdMinutes * 60
  /\ detectionInterval = setupIdleDetection(config, idleThresholdSeconds, DefaultDetectionInterval)
  /\ now = StatsNow
  /\ tab1Url = UrlA
  /\ tab1Title \in Tab1Titles
  /\ activeTab = 1
  /\ currentSession \in {NULL, StatsLive(tab1Title)}
  /\ openCount = (IF currentSession = NULL THEN 0 ELSE 1)
  /\ pendingSessions \in UNION {[1..n -> StatsSessions] : n \in 0..MaxStatsPending}
  /\ stPending = pendingSessions
  /\ archive \in UNION {[1..n -> {Archived(s, s.endTimestamp) : s \in StatsSessions}] :
                          n \in 0..MaxStatsArchive}

NextFold ==
  \/ GetStatsCalled
  \/ GetStatsResolved
  \/ GetStatsReceived

SpecFold == InitFold /\ [][NextFold]_vars

(***************************************************************************)
(* C14: the per-domain rows of getStats partition the sessions it folds    *)
(* (pending, then archive, then live): one row per distinct domain, the    *)
(* rows' session counts summing to the number of sessions, their           *)
(* totalSeconds to allTimeTotal, their todaySeconds to todayTotal, and     *)
(* each row's lastTitle the title of the last session of its domain.       *)
(***************************************************************************)
C14_Folded == AllSessions(TS, stats.archivedSessions)
C14_Of(domain) == SelectSeq(C14_Folded, LAMBDA s : s.domain = domain)
RECURSIVE C14_Sum(_, _)
C14_Sum(rows, field) ==
  IF rows = <<>> THEN 0 ELSE Head(rows)[field] + C14_Sum(Tail(rows), field)
C14_RowsPartitionSessions ==
  StatsSent
    => LET sites == stats.result.sites
       IN /\ {sites[i].domain : i \in 1..Len(sites)}
               = {C14_Folded[j].domain : j \in 1..Len(C14_Folded)}
          /\ \A i, k \in 1..Len(sites) : i # k => sites[i].domain # sites[k].domain
          /\ C14_Sum(sites, "sessions") = Len(C14_Folded)
          /\ C14_Sum(sites, "totalSeconds") = stats.result.allTimeTotal
          /\ C14_Sum(sites, "todaySeconds") = stats.result.todayTotal
          /\ \A i \in 1..Len(sites) :
               LET mine == C14_Of(sites[i].domain)
               IN /\ sites[i].sessions = Len(mine)
                  /\ sites[i].lastTitle = mine[Len(mine)].title

\* two domains; a.com has a pending session under one title and a live one
\* under another, a session of yesterday is among those folded
C14_Witness ==
  /\ StatsSent
  /\ Len(stats.result.sites) = 2
  /\ currentSession # NULL
  /\ \E i \in 1..Len(pendingSessions) :
       /\ pendingSessions[i].domain = currentSession.domain
       /\ pendingSessions[i].title # currentSession.title
  /\ stats.result.todayTotal < stats.result.allTimeTotal

(***************************************************************************)
(* C15: performSync tolerates the tracker state changing while it awaits   *)
(* the sync: when it completes, a session that an interleaved event        *)
(* opened meanwhile is still the open session.                             *)
(***************************************************************************)
C15_Completes(p) ==
  /\ sync[p].pc \in {"returned", "saving"}
  /\ sync'[p].pc = "idle"
C15_Kept ==
  \A p \in Procs :
    C15_Completes(p) /\ currentSession # NULL => currentSession' = currentSession
C15_InterleavedSessionNotOverridden == [][C15_Kept]_vars

(***************************************************************************)
(* SpecOrder: tab activations in quick succession.  Each listener call     *)
(* awaits its own browser.tabs.get; nothing in the listener orders the     *)
(* continuations of two calls, so the outstanding lookups settle in any    *)
(* order.                                                                  *)
(***************************************************************************)
\* tabs.onActivated fires while earlier lookups may be outstanding
OnActivatedAgain(t) ==
  /\ Len(lookups) < MaxOutstanding
  /\ activeTab' = t
  /\ lookups' = Append(lookups, [kind |-> "get", tabId |-> t])
  /\ UNCHANGED <<tab1Url, tab1Title, trackerVars, storageVars, clockVars, online, sideVars, syncVars>>

\* the i-th outstanding lookup settles and its handler runs on
LookupSettles(i) ==
  /\ i \in 1..Len(lookups)
  /\ SetTracker(IF lookups[i].kind = "get" THEN onActivatedResume(TS, lookups[i].tabId)
                ELSE IF lookups[i].kind = "query" THEN startTrackingActiveTabResume(TS)
                ELSE TS)
  /\ lookups' = SubSeq(lookups, 1, i - 1) \o SubSeq(lookups, i + 1, Len(lookups))
  /\ UNCHANGED <<isIdle, config, storageVars, clockVars, tabVars, online, sideVars, syncVars>>

InitOrder == InitWith({Unconfigured})

NextOrder ==
  \/ Tick
  \/ \E t \in TabIds : OnActivatedAgain(t)
  \/ \E i \in 1..MaxOutstanding : LookupSettles(i)
  \/ \E u \in Tab1Urls : OnUpdatedUrl(u)

SpecOrder == InitOrder /\ [][NextOrder]_vars

(***************************************************************************)
(* C16: open/close transitions are applied in event arrival order: when    *)
(* tab A was activated and then tab B, then once both handlers have        *)
(* finished the open session, if any, belongs to B, the tab activated      *)
(* last.                                                                   *)
(***************************************************************************)
C16_OpenSessionIsOfLastActivated ==
  lookups = <<>> /\ currentSession # NULL => currentSession.tabId = activeTab

(***************************************************************************)
(* SpecDelivery: sync configured, and the tab, focus and clock events      *)
(* arriving at any time, also between the awaits of performSync.  The user *)
(* validation and the insert request succeed or fail on the network.       *)
(***************************************************************************)
InitDelivery == InitWith({Configured})

NextDelivery ==
  \/ Tick
  \/ ~ Resuming /\ \E t \in TabIds : OnActivated(t)
  \/ ~ Resuming /\ LookupResolves
  \/ ~ Resuming /\ OnFocusLost
  \/ PerformSync("alarm")
  \/ TabsQueryResolved("alarm")
  \/ \E outcome \in {"valid", "networkError"} : ValidateResolved("alarm", outcome)
  \/ \E outcome \in {"ok", "networkError"} : SendResolved("alarm", outcome)
  \/ ArchiveGetResolved("alarm")
  \/ ArchiveSetResolved("alarm")
  \/ RemoveResolved("alarm")
  \/ PruneGetResolved("alarm")
  \/ QueueGetResolved("alarm")
  \/ QueueSetResolved("alarm")
  \/ SyncReturned("alarm")
  \/ SaveResolved("alarm")

SpecDelivery == InitDelivery /\ [][NextDelivery]_vars

(***************************************************************************)
(* C17: at-least-once delivery with sync configured: a session leaves the  *)
(* pending buffer only after it was part of a transmission the backend     *)
(* accepted.                                                               *)
(***************************************************************************)
C17_Accepted(s) == \E j \in 1..Len(backendRows) : backendRows[j] = Row(s, config)
C17_Leaves(s) == InPending(s) /\ \A j \in 1..Len(pendingSessions') : pendingSessions'[j] # s
C17_LeavesOnlyAccepted ==
  \A i \in 1..Len(pendingSessions) :
    C17_Leaves(pendingSessions[i]) => C17_Accepted(pendingSessions[i])
C17_RemovedOnlyAfterAcceptance == [][C17_LeavesOnlyAccepted]_vars

(***************************************************************************)
(* SpecInit: the background script starting.  initialize() is called when  *)
(* the script is loaded and again by the onInstalled listener; each call   *)
(* runs through its awaits.  Nothing is stored under 'config'.  The        *)
(* listeners are registered from the start; until a config is loaded       *)
(* startSession fails on it, so that no session is opened and the tab and  *)
(* focus events leave the tracker as it is.                                *)
(***************************************************************************)
InitUnchanged ==
  UNCHANGED <<isIdle, storageVars, clockVars, tabVars, lookups, online, syncVars, stats,
              stConfig, clear, focused, unhandled>>

\* runtime.onInstalled fires: initialize() is called once more
InitializeCalled(q) ==
  /\ init[q].pc = "idle"
  /\ init' = [init EXCEPT ![q] =
       IF initialized THEN [@ EXCEPT !.pc = "done"]
       ELSE [@ EXCEPT !.pc = "deviceGet", !.gotId = stDeviceId]]
  /\ UNCHANGED <<deviceId, stDeviceId, initialized, uuids, trackerVars>>
  /\ UNCHANGED idleVars
  /\ InitUnchanged

\* initializeDeviceId after its storage.get
DeviceIdResolved(q) ==
  /\ init[q].pc = "deviceGet"
  /\ IF init[q].gotId # NoDeviceId
     THEN /\ deviceId' = init[q].gotId
          /\ init' = [init EXCEPT ![q].pc = "configGet"]
          /\ UNCHANGED <<stDeviceId, uuids>>
     ELSE \* Utils.generateUUID(): an id no earlier call returned
          /\ uuids' = uuids + 1
          /\ deviceId' = uuids + 1
          /\ stDeviceId' = uuids + 1
          /\ init' = [init EXCEPT ![q].pc = "deviceSet"]
  /\ UNCHANGED <<initialized, trackerVars>>
  /\ UNCHANGED idleVars
  /\ InitUnchanged

\* the storage.set of the generated id resolved; loadConfig issues its get
DeviceIdSaved(q) ==
  /\ init[q].pc = "deviceSet"
  /\ init' = [init EXCEPT ![q].pc = "configGet"]
  /\ UNCHANGED <<deviceId, stDeviceId, initialized, uuids, trackerVars>>
  /\ UNCHANGED idleVars
  /\ InitUnchanged

\* loadConfig after its storage.get; loadPendingSessions issues its get
ConfigLoaded(q) ==
  /\ init[q].pc = "configGet"
  /\ config' = IF stConfig = NULL THEN DefaultConfig ELSE Merge(DefaultConfig, stConfig)
  /\ init' = [init EXCEPT ![q] = [@ EXCEPT !.pc = "pendingGet", !.gotPending = stPending]]
  /\ UNCHANGED <<deviceId, stDeviceId, initialized, uuids,
                 currentSession, pendingSessions, stPending, openCount>>
  /\ idleThresholdSeconds' = config'.idleThresholdMinutes * 60
  /\ UNCHANGED detectionInterval
  /\ InitUnchanged

\* loadPendingSessions after its storage.get; setupSyncAlarm awaits the alarms API
PendingLoaded(q) ==
  /\ init[q].pc = "pendingGet"
  /\ pendingSessions' = init[q].gotPending
  /\ init' = [init EXCEPT ![q].pc = "alarm"]
  /\ UNCHANGED <<deviceId, stDeviceId, initialized, uuids,
                 currentSession, config, stPending, openCount>>
  /\ UNCHANGED idleVars
  /\ InitUnchanged

\* setupSyncAlarm returned; setupIdleDetection; startTrackingActiveTab awaits
\* tabs.query
AlarmSet(q) ==
  /\ init[q].pc = "alarm"
  /\ init' = [init EXCEPT ![q].pc = "tabsQuery"]
  /\ UNCHANGED <<deviceId, stDeviceId, initialized, uuids, trackerVars>>
  /\ detectionInterval' = setupIdleDetection(config, idleThresholdSeconds, detectionInterval)
  /\ UNCHANGED idleThresholdSeconds
  /\ InitUnchanged

\* startTrackingActiveTab after tabs.query; TrackerState.initialized = true
ActiveTabTracked(q) ==
  /\ init[q].pc = "tabsQuery"
  /\ SetTracker(startTrackingActiveTabResume(TS))
  /\ initialized' = TRUE
  /\ init' = [init EXCEPT ![q].pc = "done"]
  /\ UNCHANGED <<deviceId, stDeviceId, uuids, config>>
  /\ UNCHANGED idleVars
  /\ InitUnchanged

ConfigIsLoaded == config # NULL

\* what is stored when the script starts: nothing, or the device id and a
\* pending session of an earlier run
StoredSession == StatsSession(UrlA, "A", 0)

InitInit ==
  /\ InitQuiet
  /\ currentSession = NULL
  /\ openCount = 0
  /\ pendingSessions = <<>>
  /\ config = NULL
  /\ stConfig = NULL
  /\ idleThresholdSeconds = InitialThresholdSeconds
  /\ detectionInterval = DefaultDetectionInterval
  /\ \/ stDeviceId = NoDeviceId /\ uuids = 0 /\ stPending = <<>>
     \/ stDeviceId = 1 /\ uuids = 1 /\ stPending \in {<<>>, <<StoredSession>>}
  /\ archive = <<>>
  /\ now = 1
  /\ tab1Url \in Tab1Urls
  /\ tab1Title = "A"
  /\ activeTab \in TabIds
  /\ deviceId = NoDeviceId
  /\ initialized = FALSE
  /\ init = [q \in InitProcs |->
               IF q = "startup"
               THEN [NotInitializing EXCEPT !.pc = "deviceGet", !.gotId = stDeviceId]
               ELSE NotInitializing]

NextInit ==
  \/ Tick
  \/ ConfigIsLoaded /\ \E t \in TabIds : OnActivated(t)
  \/ ConfigIsLoaded /\ LookupResolves
  \/ ConfigIsLoaded /\ OnFocusLost
  \/ InitializeCalled("installed")
  \/ \E q \in InitProcs : DeviceIdResolved(q)
  \/ \E q \in InitProcs : DeviceIdSaved(q)
  \/ \E q \in InitProcs : ConfigLoaded(q)
  \/ \E q \in InitProcs : PendingLoaded(q)
  \/ \E q \in InitProcs : AlarmSet(q)
  \/ \E q \in InitProcs : ActiveTabTracked(q)

SpecInit == InitInit /\ [][NextInit]_vars

(***************************************************************************)
(* C18: the pending buffer is append-only except for a full drain on       *)
(* success: every step leaves it unchanged, appends one closed session at  *)
(* its end, or empties it as performSync resumes from a sync that returned *)
(* success; a sync that failed removes nothing.                            *)
(***************************************************************************)
C18_Closed(s) == s.endTimestamp # NullTimestamp /\ s.durationSeconds >= 1
C18_Appends ==
  /\ Len(pendingSessions') = Len(pendingSessions) + 1
  /\ SubSeq(pendingSessions', 1, Len(pendingSessions)) = pendingSessions
  /\ C18_Closed(pendingSessions'[Len(pendingSessions')])
C18_Drains ==
  /\ pendingSessions' = <<>>
  /\ \E p \in Procs : sync[p].pc = "returned" /\ sync[p].result.success
C18_Step == pendingSessions' = pendingSessions \/ C18_Appends \/ C18_Drains
C18_AppendOnlyOrFullDrain == [][C18_Step]_vars

(***************************************************************************)
(* C19: the device id is generated once and persisted forever: at most one *)
(* id is ever generated, a stored id is never replaced, and once           *)
(* initialize() has finished the in-memory id is the stored one; also when *)
(* onInstalled calls initialize() while the first call awaits storage.     *)
(***************************************************************************)
C19_InitFinished == \A q \in InitProcs : init[q].pc \in {"idle", "done"}
C19_GeneratedOnce == uuids <= 1
C19_InMemoryIsStored == C19_InitFinished => deviceId = stDeviceId /\ deviceId # NoDeviceId
C19_StoredKept == stDeviceId # NoDeviceId => stDeviceId' = stDeviceId
C19_DeviceIdGeneratedOnce ==
  [] (C19_GeneratedOnce /\ C19_InMemoryIsStored) /\ [][C19_StoredKept]_vars

(***************************************************************************)
(* SpecSwitch: a minute of browsing passes at once; tabs are switched and  *)
(* the sync, fully configured, validates and transmits with success.  The  *)
(* events arrive at any time, also between the awaits of performSync.      *)
(***************************************************************************)
\* SessionSeconds pass between two events
Elapse ==
  /\ now < SessionSeconds
  /\ now' = now + SessionSeconds
  /\ UNCHANGED <<clockBacks, trackerVars, storageVars, tabVars, lookups, online, sideVars, syncVars>>

InitSwitch == InitWith({Configured})

NextSwitch ==
  \/ Tick
  \/ Elapse
  \/ ~ Resuming /\ \E t \in TabIds : OnActivated(t)
  \/ ~ Resuming /\ LookupResolves
  \/ ~ Resuming /\ OnFocusLost
  \/ PerformSync("alarm")
  \/ TabsQueryResolved("alarm")
  \/ ValidateResolved("alarm", "valid")
  \/ SendResolved("alarm", "ok")
  \/ ArchiveGetResolved("alarm")
  \/ ArchiveSetResolved("alarm")
  \/ RemoveResolved("alarm")
  \/ PruneGetResolved("alarm")
  \/ SyncReturned("alarm")
  \/ SaveResolved("alarm")

SpecSwitch == InitSwitch /\ [][NextSwitch]_vars

(***************************************************************************)
(* C20: a session open on domain A for 65 seconds is closed with duration  *)
(* 65 and appended to the pending buffer when a trackable tab on domain B  *)
(* is activated; after a following sync that transmitted, the archive      *)
(* holds exactly one row for that session, with duration 65 and the url,   *)
(* start and end it was closed with.                                       *)
(***************************************************************************)
C20_OnA(s) == s.domain = extractDomain(UrlA) /\ s.durationSeconds = SessionSeconds
C20_OpenOnA ==
  /\ currentSession # NULL
  /\ currentSession.domain = extractDomain(UrlA)
  /\ now - currentSession.startTimestamp = SessionSeconds
\* the handler of the activation of tab 2 runs on after its lookup
C20_SwitchToB ==
  /\ lookups # <<>>
  /\ Head(lookups) = [kind |-> "get", tabId |-> 2]
  /\ lookups' = Tail(lookups)
C20_Closes ==
  C20_OpenOnA /\ C20_SwitchToB
    => /\ pendingSessions' =
            Append(pendingSessions,
                   [currentSession EXCEPT !.endTimestamp = now,
                                          !.durationSeconds = SessionSeconds])
       /\ stPending' = pendingSessions'
       /\ currentSession' # NULL
       /\ currentSession'.domain = extractDomain(UrlB)
       /\ currentSession'.startTimestamp = now
C20_RowsOf(s) ==
  {j \in 1..Len(archive) : /\ archive[j].domain = s.domain
                           /\ archive[j].startTimestamp = s.startTimestamp}
C20_ArchivedAsClosed ==
  C4_Transmitted
    => \A i \in 1..N :
         C20_OnA(R.input[i])
           => /\ Cardinality(C20_RowsOf(R.input[i])) = 1
              /\ \A j \in C20_RowsOf(R.input[i]) : Unstamped(archive[j]) = R.input[i]
C20_SwitchClosesAndSyncArchives == [][C20_Closes]_vars /\ [] C20_ArchivedAsClosed

\* the scenario: the sync has transmitted, and the archive's only row for
\* a.com is the session of 65 seconds, the backend's sessions table has it too
C20_Witness ==
  /\ C4_Transmitted
  /\ \E i \in 1..N : C20_OnA(R.input[i])
  /\ Cardinality({j \in 1..Len(archive) : archive[j].domain = extractDomain(UrlA)}) = 1
  /\ \E j \in 1..Len(archive) : C20_OnA(archive[j]) /\ archive[j].endTimestamp = SessionSeconds
  /\ \E j \in 1..Len(backendRows) : backendRows[j].duration_seconds = SessionSeconds

(***************************************************************************)
(* C21: internal browser pages are never tracked: the open session and     *)
(* every session in the pending buffer and in the archive has a URL that   *)
(* is not empty and starts with none of about:, moz-extension:, chrome:,   *)
(* file:, data:, javascript:, and its domain is the one derived from that  *)
(* URL.                                                                    *)
(***************************************************************************)
C21_Passes(url) ==
  /\ url # <<>>
  /\ url[1] \notin {"about:", "moz-extension:", "chrome:", "file:", "data:", "javascript:"}
C21_Tracked(s) == C21_Passes(s.url) /\ s.domain = extractDomain(s.url)
C21_InternalPagesNeverTracked ==
  /\ currentSession # NULL => C21_Tracked(currentSession)
  /\ \A i \in 1..Len(pendingSessions) : C21_Tracked(pendingSessions[i])
  /\ \A j \in 1..Len(archive) : C21_Tracked(archive[j])

\* the active tab shows an internal page, its handlers have run and no session
\* is open; sessions of the pages before it are pending and archived
C21_Witness ==
  /\ activeTab = 1
  /\ tab1Url = UrlInternal
  /\ lookups = <<>>
  /\ currentSession = NULL
  /\ pendingSessions # <<>>
  /\ archive # <<>>

(***************************************************************************)
(* SpecTitle: the pages of tab 1 change their title while the tabs are     *)
(* switched, navigated and left.                                           *)
(***************************************************************************)
InitTitle == InitWith({Unconfigured})

NextTitle ==
  \/ Tick
  \/ \E t \in TabIds : OnActivated(t)
  \/ LookupResolves
  \/ \E u \in Tab1Urls : OnUpdatedUrl(u)
  \/ \E ti \in Tab1Titles : OnUpdatedTitle(ti)
  \/ OnFocusLost

SpecTitle == InitTitle /\ [][NextTitle]_vars

(***************************************************************************)
(* C22: a title-only change of the tracked tab writes the new title into   *)
(* the open session and nothing else: the session stays open with its url, *)
(* startTimestamp and tabId, and the pending buffer is unchanged.          *)
(***************************************************************************)
C22_TitleOfTrackedTabChanges ==
  /\ tab1Title' # tab1Title
  /\ activeTab = 1
  /\ currentSession # NULL
  /\ currentSession.tabId = 1
C22_InPlace ==
  C22_TitleOfTrackedTabChanges
    => /\ currentSession' = [currentSession EXCEPT !.title = tab1Title']
       /\ pendingSessions' = pendingSessions
       /\ stPending' = stPending
       /\ openCount' = openCount
C22_TitleChangeMutatesInPlace == [][C22_InPlace]_vars

\* a session of tab 1 that has lasted a second carries the changed title, and
\* nothing was appended
C22_Witness ==
  /\ activeTab = 1
  /\ currentSession # NULL
  /\ currentSession.tabId = 1
  /\ currentSession.startTimestamp < now
  /\ currentSession.title = "A2"
  /\ tab1Title = "A2"
  /\ pendingSessions = <<>>

(***************************************************************************)
(* SpecNavigate: tab 1 navigates between two pages of a.com and an         *)
(* internal page, while tabs are switched, the user goes idle and comes    *)
(* back, and performSync archives.                                         *)
(***************************************************************************)
UrlPage == <<"https:", "a.com", "/page">>
NavUrls == {UrlA, UrlPage, UrlInternal}

InitNavigate == InitWith({Unconfigured, UnconfiguredIdle})

NextNavigate ==
  \/ Tick
  \/ ~ Resuming /\ \E t \in TabIds : OnActivated(t)
  \/ ~ Resuming /\ LookupResolves
  \/ ~ Resuming /\ \E u \in NavUrls : OnUpdatedUrl(u)
  \/ ~ Resuming /\ \E state \in {"idle", "locked", "active"} : OnIdleState(state)
  \/ PerformSync("alarm")
  \/ TabsQueryResolved("alarm")
  \/ ArchiveGetResolved("alarm")
  \/ ArchiveSetResolved("alarm")
  \/ SyncReturned("alarm")
  \/ SaveResolved("alarm")

SpecNavigate == InitNavigate /\ [][NextNavigate]_vars

(***************************************************************************)
(* C23: a URL change of the active tab is a navigation: the open session   *)
(* is closed (appended to the pending buffer if it lasted a second) and,   *)
(* if the new URL is trackable and the tracker is not suppressed by idle,  *)
(* a session is opened with the new URL, starting now, with duration 0 and *)
(* no end; if the new URL is not trackable no session is left open.  With  *)
(* no open session the handler does what startSession does.                *)
(***************************************************************************)
C23_Navigates == tab1Url' # tab1Url /\ activeTab = 1
C23_Suppressed == config.idleDetectionEnabled /\ isIdle
C23_ClosedFirst == endCurrentSession(TS)
C23_Opened ==
  [url |-> tab1Url', domain |-> extractDomain(tab1Url'), title |-> tab1Title,
   startTimestamp |-> now, endTimestamp |-> NullTimestamp, durationSeconds |-> 0,
   tabId |-> 1, incognito |-> FALSE]
C23_Navigation ==
  C23_Navigates
    => /\ pendingSessions' = C23_ClosedFirst.pendingSessions
       /\ stPending' = C23_ClosedFirst.stPending
       /\ currentSession' = IF isTrackableUrl(tab1Url') /\ ~ C23_Suppressed
                            THEN C23_Opened ELSE NULL
C23_UrlChangeClosesAndReopens == [][C23_Navigation]_vars

\* as specified when the new URL is not the open session's; a session that
\* already has the new URL stays open
C23_SameUrl == currentSession # NULL /\ currentSession.url = tab1Url'
C23_NavigationToOtherUrl ==
  C23_Navigates
    => IF isTrackableUrl(tab1Url') /\ C23_SameUrl
       THEN /\ currentSession' = [currentSession EXCEPT !.title = tab1Title]
            /\ pendingSessions' = pendingSessions
            /\ stPending' = stPending
       ELSE C23_Navigation
C23_UrlChangeToOtherUrlClosesAndReopens == [][C23_NavigationToOtherUrl]_vars

\* tab 1 went from https://a.com/ to https://a.com/page: the session of the
\* first page is the last one pending, the session of the second opened as it
\* ended
C23_Witness ==
  /\ currentSession # NULL
  /\ currentSession.url = UrlPage
  /\ currentSession.startTimestamp = now
  /\ pendingSessions # <<>>
  /\ LET closed == pendingSessions[Len(pendingSessions)]
     IN closed.url = UrlA /\ closed.tabId = 1 /\ closed.endTimestamp = now

(***************************************************************************)
(* C24: closing a tab ends the current session exactly when the closed tab *)
(* is the one owning it; closing any other tab leaves the current session, *)
(* the pending buffer and isIdle unchanged.                                *)
(***************************************************************************)
C24_Owns(t) == currentSession # NULL /\ currentSession.tabId = t
C24_Ended ==
  LET closed == [currentSession EXCEPT
                   !.endTimestamp = now,
                   !.durationSeconds = now - currentSession.startTimestamp]
  IN /\ currentSession' = NULL
     /\ pendingSessions' = IF now - currentSession.startTimestamp >= 1
                           THEN Append(pendingSessions, closed) ELSE pendingSessions
     /\ stPending' = IF now - currentSession.startTimestamp >= 1
                     THEN pendingSessions' ELSE stPending
C24_TabClosed(t) ==
  OnRemoved(t)
    => /\ isIdle' = isIdle
       /\ IF C24_Owns(t) THEN C24_Ended
          ELSE UNCHANGED <<currentSession, pendingSessions, stPending>>
C24_TabCloseEndsOwnSession == [][\A t \in TabIds : C24_TabClosed(t)]_vars

\* tab 2 was activated and closed before its lookup settled; the session of
\* tab 1 is still open
C24_Witness ==
  /\ C24_Owns(1)
  /\ currentSession.startTimestamp < now
  /\ activeTab = NoTab
  /\ lookups = <<[kind |-> "rejected", tabId |-> 2]>>

(***************************************************************************)
(* C25: with idle detection enabled, an idle-state event 'idle' or         *)
(* 'locked' sets isIdle and closes the open session, and an event 'active' *)
(* clears isIdle and runs start-tracking of the active tab again; with     *)
(* idle detection disabled the events change nothing.                      *)
(***************************************************************************)
C25_Closed ==
  IF currentSession = NULL
  THEN UNCHANGED <<currentSession, pendingSessions, stPending>>
  ELSE C24_Ended
C25_IdleEvent(state) ==
  OnIdleState(state)
    => IF ~ config.idleDetectionEnabled
       THEN UNCHANGED <<currentSession, isIdle, pendingSessions, stPending, lookups>>
       ELSE IF state \in {"idle", "locked"}
       THEN isIdle' = TRUE /\ C25_Closed /\ lookups' = lookups
       ELSE /\ isIdle' = FALSE
            /\ UNCHANGED <<currentSession, pendingSessions, stPending>>
            /\ lookups' = Append(lookups, [kind |-> "query", tabId |-> NoTab])
C25_IdleEventsFollowDetection ==
  [][\A state \in {"idle", "locked", "active"} : C25_IdleEvent(state)]_vars

\* the user went idle during a session of a second or more: it is pending,
\* none is open
C25_Witness ==
  /\ config.idleDetectionEnabled
  /\ isIdle
  /\ currentSession = NULL
  /\ pendingSessions # <<>>
  /\ pendingSessions[Len(pendingSessions)].endTimestamp = now
  /\ lookups = <<>>

(***************************************************************************)
(* The saveConfig message.  The handler assigns the merged configuration,  *)
(* issues the storage.set of it, and then awaits the storage and alarms    *)
(* APIs; what runs after these awaits (alarms.create, setupIdleDetection   *)
(* passing TrackerState.idleThresholdSeconds to the browser) writes        *)
(* nothing of the tracker's state, so the handler is one step.             *)
(***************************************************************************)
SaveConfig(c) ==
  /\ config' = Merge(config, c)
  /\ stConfig' = config'
  /\ detectionInterval' = setupIdleDetection(config', idleThresholdSeconds, detectionInterval)
  /\ UNCHANGED idleThresholdSeconds
  /\ UNCHANGED <<currentSession, isIdle, pendingSessions, stPending, openCount,
                 storageVars, clockVars, tabVars, lookups, online, syncVars,
                 stats, initVars, clear, focused, unhandled>>

\* the configurations saveSettings builds from the settings form: every field
\* of the configuration is in the message
ShortRetention == [Configured EXCEPT !.archiveRetentionDays = 7]
LongThreshold == [UnconfiguredIdle EXCEPT !.idleThresholdMinutes = 10]
SettingsConfigs == {Unconfigured, UnconfiguredIdle, Configured, ShortRetention, LongThreshold}

(***************************************************************************)
(* SpecConfig: the settings are saved while the tracker follows tab, focus *)
(* and idle events.                                                        *)
(***************************************************************************)
InitConfig == InitWith({Unconfigured, UnconfiguredIdle})

NextConfig ==
  \/ Tick
  \/ \E t \in TabIds : OnActivated(t)
  \/ LookupResolves
  \/ \E state \in {"idle", "locked", "active"} : OnIdleState(state)
  \/ OnFocusLost
  \/ \E c \in SettingsConfigs : SaveConfig(c)

SpecConfig == InitConfig /\ [][NextConfig]_vars

(***************************************************************************)
(* C26: whenever idle detection is enabled and isIdle is true, no session  *)
(* is open, also after saveConfig has disabled and enabled idle detection. *)
(***************************************************************************)
C26_IdleMeansNoSession ==
  (config.idleDetectionEnabled /\ isIdle) => currentSession = NULL

(***************************************************************************)
(* C27: when the window loses all focus, the open session is closed        *)
(* (appended to the pending buffer if it lasted a second or more) and no   *)
(* session is open after the handler; with no session open, nothing        *)
(* changes.                                                                *)
(***************************************************************************)
C27_FocusLost ==
  OnFocusLost
    => /\ currentSession' = NULL
       /\ IF currentSession = NULL THEN UNCHANGED vars ELSE C24_Ended
C27_FocusLossClosesSession == [][C27_FocusLost]_vars

\* the session of tab 2 was closed by the loss of focus: tab 2 is still the
\* active tab and idle detection is off
C27_Witness ==
  /\ currentSession = NULL
  /\ ~ config.idleDetectionEnabled
  /\ activeTab = 2
  /\ lookups = <<>>
  /\ pendingSessions # <<>>
  /\ pendingSessions[Len(pendingSessions)].tabId = 2
  /\ pendingSessions[Len(pendingSessions)].endTimestamp = now
  /\ syncs = 0

(***************************************************************************)
(* C29: saveConfig(c) with the configuration c of the settings form        *)
(* replaces the configuration: afterwards TrackerState.config and the      *)
(* stored configuration both equal c.                                      *)
(***************************************************************************)
C29_Saved(c) == SaveConfig(c) => (config' = c /\ stConfig' = c)
C29_SaveReplacesConfig == [][\A c \in SettingsConfigs : C29_Saved(c)]_vars

\* the settings with a retention of seven days were saved over the initial
\* ones, which had no credentials and the default retention
C29_Witness ==
  /\ config = ShortRetention
  /\ stConfig = ShortRetention

(***************************************************************************)
(* SpecSchemes: tab 1 shows pages of every kind of scheme; the tabs are    *)
(* activated, tab 1 navigates, the window loses focus.                     *)
(***************************************************************************)
SchemeUrls ==
  {UrlA, <<"http:", "a.com", "/">>, UrlInternal, <<"chrome:", "settings">>,
   <<"file:", "/etc/hosts">>, <<"ftp:", "a.com", "/f">>,
   <<"view-source:", "https://a.com/">>, <<"resource:", "gre">>, <<"blob:", "https://a.com/1">>}

InitSchemes ==
  /\ InitQuiet
  /\ Initialized
  /\ currentSession = NULL
  /\ pendingSessions = <<>>
  /\ config = Unconfigured
  /\ stConfig = config
  /\ idleThresholdSeconds = config.idleThresholdMinutes * 60
  /\ detectionInterval = setupIdleDetection(config, idleThresholdSeconds, DefaultDetectionInterval)
  /\ stPending = <<>>
  /\ archive = <<>>
  /\ now = 0
  /\ tab1Url \in SchemeUrls \cup {<<>>}
  /\ tab1Title = "A"
  /\ activeTab \in TabIds
  /\ openCount = 0

NextSchemes ==
  \/ Tick
  \/ \E t \in TabIds : OnActivated(t)
  \/ LookupResolves
  \/ \E u \in SchemeUrls : OnUpdatedUrl(u)
  \/ OnFocusLost

SpecSchemes == InitSchemes /\ [][NextSchemes]_vars

(***************************************************************************)
(* C30: isTrackableUrl is true only for http and https URLs, and false for *)
(* the empty URL and every other scheme, so that a session is only ever    *)
(* open for an http(s) URL.                                                *)
(***************************************************************************)
C30_Http(url) == StartsWith(url, "http:") \/ StartsWith(url, "https:")
\* startSession opens a session for tab.url only when isTrackableUrl(tab.url)
C30_OnlyHttpIsTracked ==
  currentSession # NULL => C30_Http(currentSession.url)

(***************************************************************************)
(* The window's online event.  The listener awaits the storage.get of      *)
(* failedSyncs (sync["online"].got is what it returns) and, if the queue   *)
(* it read is not empty, calls performSync.                                *)
(***************************************************************************)
GoesOffline ==
  /\ online
  /\ online' = FALSE
  /\ UNCHANGED <<trackerVars, storageVars, clockVars, tabVars, lookups, syncVars, sideVars>>

OnlineEvent ==
  /\ ~ online
  /\ sync["online"].pc = "idle"
  /\ online' = TRUE
  /\ sync' = [sync EXCEPT !["online"] = [IdleProc EXCEPT !.pc = "failedGet", !.got = failedSyncs]]
  /\ UNCHANGED <<trackerVars, storageVars, clockVars, tabVars, lookups, sideVars,
                 syncs, backendRows>>

FailedGetResolved ==
  /\ sync["online"].pc = "failedGet"
  /\ IF sync["online"].got # <<>>
     THEN \* await performSync()
          /\ syncs < MaxSyncs
          /\ syncs' = syncs + 1
          /\ LET sy == [IdleProc EXCEPT !.hadActiveSession = (currentSession # NULL)]
             IN sync' = [sync EXCEPT !["online"] =
                           IF sy.hadActiveSession THEN [sy EXCEPT !.pc = "tabsQuery"]
                           ELSE SyncCall("online", sy, TS)]
     ELSE /\ sync' = [sync EXCEPT !["online"] = IdleProc]
          /\ UNCHANGED syncs
  /\ UNCHANGED <<trackerVars, storageVars, clockVars, tabVars, lookups, online, sideVars,
                 backendRows>>

(***************************************************************************)
(* SpecRetry: sessions are recorded and synced with the complete           *)
(* configuration while the network goes away and comes back; the syncs of  *)
(* the alarm, of the syncNow message and of the online listener overlap.   *)
(***************************************************************************)
InitRetry == InitWith({Configured})

\* the continuation of a performSync whose sync has returned runs before the
\* callbacks of the other invocations
Continues(p) == \A q \in Procs \ {p} : sync[q].pc # "returned"

NextRetry ==
  \/ Tick
  \/ ~ Resuming /\ OnActivated(2)
  \/ ~ Resuming /\ LookupResolves
  \/ ~ Resuming /\ GoesOffline
  \/ ~ Resuming /\ OnlineEvent
  \/ ~ Resuming /\ FailedGetResolved
  \/ ~ Resuming /\ \E p \in {"alarm", "syncNow"} : PerformSync(p)
  \/ \E p \in Procs : Continues(p) /\ TabsQueryResolved(p)
  \* a fetch gets its response while the network is there
  \/ \E p \in Procs : Continues(p) /\ online /\ ValidateResolved(p, "valid")
  \/ \E p \in Procs : Continues(p) /\ ~ online /\ ValidateResolved(p, "networkError")
  \/ \E p \in Procs : Continues(p) /\ online /\ SendResolved(p, "ok")
  \/ \E p \in Procs : Continues(p) /\ SendResolved(p, "networkError")
  \/ \E p \in Procs : Continues(p) /\ ArchiveGetResolved(p)
  \/ \E p \in Procs : Continues(p) /\ ArchiveSetResolved(p)
  \/ \E p \in Procs : Continues(p) /\ RemoveResolved(p)
  \/ \E p \in Procs : Continues(p) /\ PruneGetResolved(p)
  \/ \E p \in Procs : Continues(p) /\ QueueGetResolved(p)
  \/ \E p \in Procs : Continues(p) /\ QueueSetResolved(p)
  \/ \E p \in Procs : Continues(p) /\ SyncReturned(p)
  \/ \E p \in Procs : Continues(p) /\ SaveResolved(p)

SpecRetry == InitRetry /\ [][NextRetry]_vars

(***************************************************************************)
(* C28: the sessions of the failed-sync queue await retry: each of them is *)
(* still in the pending buffer, and a successful sync leaves the queue     *)
(* empty.                                                                  *)
(***************************************************************************)
C28_QueuedArePending ==
  \A i \in 1..Len(failedSyncs) :
    \E j \in 1..Len(pendingSessions) : pendingSessions[j] = failedSyncs[i]
C28_SuccessEmptiesQueue ==
  \A p \in Procs :
    (sync[p].pc = "returned" /\ sync[p].result.success) => failedSyncs = <<>>
C28_FailedQueueAwaitsRetry == C28_QueuedArePending /\ C28_SuccessEmptiesQueue

(***************************************************************************)
(* SpecResume: performSync runs with no event between its start and its    *)
(* end (time passes); tab, focus and idle events happen between the syncs, *)
(* and a sync starts when no tab lookup is outstanding and the window has  *)
(* an active tab.                                                          *)
(***************************************************************************)
InitResume == InitWith({Unconfigured, Configured})

NextResume ==
  \/ Tick
  \/ SyncQuiet /\ \E t \in TabIds : OnActivated(t)
  \/ SyncQuiet /\ LookupResolves
  \/ SyncQuiet /\ \E u \in Tab1Urls : OnUpdatedUrl(u)
  \/ SyncQuiet /\ \E t \in TabIds : OnRemoved(t)
  \/ SyncQuiet /\ OnFocusLost
  \/ SyncQuiet /\ OnFocusGained
  \/ lookups = <<>> /\ activeTab # NoTab /\ PerformSync("alarm")
  \/ TabsQueryResolved("alarm")
  \/ \E outcome \in {"valid", "networkError"} : ValidateResolved("alarm", outcome)
  \/ \E outcome \in {"ok", "networkError"} : SendResolved("alarm", outcome)
  \/ ArchiveGetResolved("alarm")
  \/ ArchiveSetResolved("alarm")
  \/ RemoveResolved("alarm")
  \/ PruneGetResolved("alarm")
  \/ QueueGetResolved("alarm")
  \/ QueueSetResolved("alarm")
  \/ SyncReturned("alarm")
  \/ SaveResolved("alarm")

SpecResume == InitResume /\ [][NextResume]_vars

(***************************************************************************)
(* C31: performSync first closes the open session, which is part of the    *)
(* batch passed to sync if it lasted a second or more; when no other event *)
(* occurs, it ends with a session open on the same tab and URL, started at *)
(* the time performSync completes.                                         *)
(***************************************************************************)
\* the step after tabs.query: the session is closed and in the batch
C31_Closes(p) ==
  TabsQueryResolved(p)
    => /\ currentSession # NULL
       /\ currentSession' = NULL
       /\ LET batch == sync'[p].input
          IN IF now - currentSession.startTimestamp >= 1
             THEN /\ batch = Append(pendingSessions, batch[Len(batch)])
                  /\ batch[Len(batch)].startTimestamp = currentSession.startTimestamp
                  /\ batch[Len(batch)].endTimestamp = now
                  /\ batch[Len(batch)].url = currentSession.url
             ELSE batch = pendingSessions
       \* the tab the restart will use is the tab of the session
       /\ sync'[p].activeTabInfo # NULL
       /\ sync'[p].activeTabInfo.id = currentSession.tabId
       /\ sync'[p].activeTabInfo.url = currentSession.url
\* the last step of performSync
C31_Completes(p) == sync[p].pc \in {"returned", "saving"} /\ sync'[p].pc = "idle"
C31_Reopens(p) ==
  (C31_Completes(p) /\ sync[p].hadActiveSession)
    => /\ currentSession' # NULL
       /\ currentSession'.tabId = sync[p].activeTabInfo.id
       /\ currentSession'.url = sync[p].activeTabInfo.url
       /\ currentSession'.startTimestamp = now
       /\ currentSession'.endTimestamp = NullTimestamp
C31_TrackingContinuesAcrossSync ==
  [][\A p \in Procs : C31_Closes(p) /\ C31_Reopens(p)]_vars

\* a sync during which time passed has completed: the session it closed is
\* archived and a session on the same tab and URL runs since the completion
C31_Witness ==
  /\ sync["alarm"].pc = "idle"
  /\ syncs = 1
  /\ pendingSessions = <<>>
  /\ currentSession # NULL
  /\ currentSession.startTimestamp = now
  /\ archive # <<>>
  /\ archive[Len(archive)].tabId = currentSession.tabId
  /\ archive[Len(archive)].url = currentSession.url
  /\ archive[Len(archive)].endTimestamp < now

(***************************************************************************)
(* C32: a session closed and appended to the pending buffer while a        *)
(* performSync is in flight is not lost: when sync returns to performSync, *)
(* the session stays in the pending buffer or is in the archive, and it    *)
(* leaves the buffer only if it was transmitted.                           *)
(***************************************************************************)
C32_InBatch(p, s) == \E j \in 1..Len(sync[p].input) : sync[p].input[j] = s
C32_AppendedInFlight(p, s) == InPending(s) /\ ~ C32_InBatch(p, s)
C32_Stays(s) == \E j \in 1..Len(pendingSessions') : pendingSessions'[j] = s
C32_KeptSomewhere(p) ==
  \A i \in 1..Len(pendingSessions) :
    C32_AppendedInFlight(p, pendingSessions[i])
      => (C32_Stays(pendingSessions[i]) \/ InArchive(pendingSessions[i]))
C32_LeavesOnlyTransmitted(p) ==
  \A i \in 1..Len(pendingSessions) :
    C32_AppendedInFlight(p, pendingSessions[i])
      => (C32_Stays(pendingSessions[i]) \/ C17_Accepted(pendingSessions[i]))
C32_SessionAppendedInFlightNotLost ==
  [][\A p \in Procs :
       SyncReturned(p) => (C32_KeptSomewhere(p) /\ C32_LeavesOnlyTransmitted(p))]_vars

(***************************************************************************)
(* C33: when performSync invocations overlap and the backend accepts the   *)
(* requests of both, every pending session is transmitted once: no two     *)
(* rows of the backend's table are the same session.                       *)
(***************************************************************************)
C33_TransmittedOnce ==
  \A i, j \in 1..Len(backendRows) : backendRows[i] = backendRows[j] => i = j

(***************************************************************************)
(* The clearData message.  The handler assigns a new empty array to        *)
(* TrackerState.pendingSessions, awaits savePendingSessions, then awaits   *)
(* the removal of the archive and the failed queue from storage.           *)
(***************************************************************************)
RECURSIVE SessionsOf(_)
SessionsOf(ss) == IF ss = <<>> THEN {} ELSE {Head(ss)} \cup SessionsOf(Tail(ss))
RECURSIVE UnstampedOf(_)
UnstampedOf(as) == IF as = <<>> THEN {} ELSE {Unstamped(Head(as))} \cup UnstampedOf(Tail(as))

ClearDataCalled ==
  /\ clear.pc = "idle"
  /\ clear' = [pc |-> "saving",
               before |-> SessionsOf(pendingSessions) \cup UnstampedOf(archive)
                            \cup SessionsOf(failedSyncs)]
  /\ pendingSessions' = <<>>
  /\ stPending' = <<>>
  /\ sync' = Unalias(sync)
  /\ UNCHANGED <<currentSession, isIdle, config, openCount, storageVars, clockVars, tabVars,
                 lookups, online, syncs, backendRows, stats, initVars, stConfig, focused, idleVars, unhandled>>

\* savePendingSessions resolved: storage.local.remove(['archive', 'failedSyncs'])
ClearDataSaved ==
  /\ clear.pc = "saving"
  /\ clear' = [clear EXCEPT !.pc = "removing"]
  /\ archive' = <<>>
  /\ failedSyncs' = <<>>
  /\ UNCHANGED <<trackerVars, clockVars, tabVars, lookups, online, syncVars,
                 stats, initVars, stConfig, focused, idleVars, unhandled>>

\* the removal resolved: { success: true } is returned
ClearDataRemoved ==
  /\ clear.pc = "removing"
  /\ clear' = [clear EXCEPT !.pc = "done"]
  /\ UNCHANGED <<trackerVars, storageVars, clockVars, tabVars, lookups, online, syncVars,
                 stats, initVars, stConfig, focused, idleVars, unhandled>>

(***************************************************************************)
(* SpecClear: the data is cleared once while sessions are recorded and a   *)
(* sync (complete configuration, or none) may be in flight.                *)
(***************************************************************************)
InitClear == InitWith({Unconfigured, Configured})

NextClear ==
  \/ Tick
  \/ ~ Resuming /\ OnActivated(2)
  \/ ~ Resuming /\ LookupResolves
  \/ ~ Resuming /\ OnFocusLost
  \/ ~ Resuming /\ ClearDataCalled
  \/ ~ Resuming /\ ClearDataSaved
  \/ ~ Resuming /\ ClearDataRemoved
  \/ ~ Resuming /\ PerformSync("alarm")
  \/ TabsQueryResolved("alarm")
  \/ ValidateResolved("alarm", "valid")
  \/ \E outcome \in {"ok", "networkError"} : SendResolved("alarm", outcome)
  \/ ArchiveGetResolved("alarm")
  \/ ArchiveSetResolved("alarm")
  \/ RemoveResolved("alarm")
  \/ PruneGetResolved("alarm")
  \/ QueueGetResolved("alarm")
  \/ QueueSetResolved("alarm")
  \/ SyncReturned("alarm")
  \/ SaveResolved("alarm")

SpecClear == InitClear /\ [][NextClear]_vars

(***************************************************************************)
(* C34: after clearData has completed, no session that was pending,        *)
(* archived or queued when the request arrived is in the pending buffer,   *)
(* the archive or the failed queue, also when a sync was in flight.        *)
(***************************************************************************)
C34_ClearedDataStaysCleared ==
  clear.pc = "done"
    => \A s \in clear.before : ~ InPending(s) /\ ~ InArchive(s) /\ ~ InFailedQueue(s)

(***************************************************************************)
(* The focus of the browser's windows, followed.  windows.onFocusChanged   *)
(* fires with WINDOW_ID_NONE when the last focused window loses the focus  *)
(* and with a window id when a window gets it.                             *)
(***************************************************************************)
WindowFocusLost ==
  /\ focused
  /\ focused' = FALSE
  /\ SetTracker(endCurrentSession(TS))
  /\ UNCHANGED <<isIdle, config, storageVars, clockVars, tabVars, lookups, online, syncVars,
                 stats, initVars, stConfig, clear, idleVars, unhandled>>

WindowFocusGained ==
  /\ ~ focused
  /\ Len(lookups) < MaxLookups
  /\ focused' = TRUE
  /\ lookups' = Append(lookups, [kind |-> "query", tabId |-> NoTab])
  /\ UNCHANGED <<trackerVars, storageVars, clockVars, tabVars, online, syncVars,
                 stats, initVars, stConfig, clear, idleVars, unhandled>>

(***************************************************************************)
(* SpecFocus: the windows lose and get the focus while tabs are activated  *)
(* and navigate, the user goes idle and comes back, and performSync (not   *)
(* configured) runs.                                                       *)
(***************************************************************************)
InitFocus == InitWith({Unconfigured, UnconfiguredIdle})

NextFocus ==
  \/ Tick
  \/ ~ Resuming /\ \E t \in TabIds : OnActivated(t)
  \/ ~ Resuming /\ LookupResolves
  \/ ~ Resuming /\ \E u \in Tab1Urls : OnUpdatedUrl(u)
  \/ ~ Resuming /\ \E state \in {"idle", "active"} : OnIdleState(state)
  \/ ~ Resuming /\ WindowFocusLost
  \/ ~ Resuming /\ WindowFocusGained
  \/ ~ Resuming /\ PerformSync("alarm")
  \/ TabsQueryResolved("alarm")
  \/ ArchiveGetResolved("alarm")
  \/ ArchiveSetResolved("alarm")
  \/ SyncReturned("alarm")
  \/ SaveResolved("alarm")

SpecFocus == InitFocus /\ [][NextFocus]_vars

(***************************************************************************)
(* C35: while no browser window has the focus, no session is open.         *)
(***************************************************************************)
C35_NoSessionWithoutFocus == ~ focused => currentSession = NULL

(***************************************************************************)
(* C36: when startTrackingActiveTab has run after a focus-gained event or  *)
(* an idle-to-active transition, a session is open on the active tab if    *)
(* its URL is trackable, and no session is open if it is not or if there   *)
(* is no active tab.                                                       *)
(***************************************************************************)
C36_Handled == lookups # <<>> /\ Head(lookups).kind = "query" /\ LookupResolves
C36_SessionOfActiveTab ==
  IF activeTab # NoTab /\ isTrackableUrl(TabObj(activeTab).url)
  THEN /\ currentSession' # NULL
       /\ currentSession'.tabId = activeTab
       /\ currentSession'.url = TabObj(activeTab).url
  ELSE currentSession' = NULL
C36_ActiveTabTrackedAfterFocus == [][C36_Handled => C36_SessionOfActiveTab]_vars

(***************************************************************************)
(* C37: with a clock that is never set back, the sessions of the pending   *)
(* buffer do not overlap (each ends no later than the next starts), no two *)
(* different sessions of the pending buffer, the archive and the failed    *)
(* queue have the same startTimestamp, and queueFailedSync's filter on     *)
(* startTimestamp leaves every session it is given in the queue.           *)
(***************************************************************************)
C37_Recorded ==
  SessionsOf(pendingSessions) \cup UnstampedOf(archive) \cup SessionsOf(failedSyncs)
C37_Ordered ==
  /\ \A i \in 1..Len(pendingSessions) - 1 :
       pendingSessions[i].endTimestamp <= pendingSessions[i + 1].startTimestamp
  /\ \A s, t \in C37_Recorded : s.startTimestamp = t.startTimestamp => s = t
C37_Queued(p) ==
  QueueGetResolved(p)
    => \A i \in 1..Len(Sessions(p)) :
         \E j \in 1..Len(failedSyncs') : failedSyncs'[j] = Sessions(p)[i]
C37_SessionsDoNotOverlap ==
  [] C37_Ordered /\ [][\A p \in Procs : C37_Queued(p)]_vars

\* two sessions are pending and both are in the failed queue
C37_Witness ==
  /\ Len(pendingSessions) >= 2
  /\ \A i \in 1..Len(pendingSessions) : InFailedQueue(pendingSessions[i])

(***************************************************************************)
(* C38: the idle threshold in force matches the configuration: after       *)
(* loadConfig and after every saveConfig, idleThresholdSeconds is          *)
(* config.idleThresholdMinutes * 60, and with idle detection enabled it is *)
(* the interval passed to browser.idle.                                    *)
(***************************************************************************)
C38_ThresholdMatchesConfig ==
  /\ idleThresholdSeconds = config.idleThresholdMinutes * 60
  /\ config.idleDetectionEnabled => detectionInterval = config.idleThresholdMinutes * 60

(***************************************************************************)
(* SpecEarly: events that arrive while initialize() has not loaded the     *)
(* config yet.  The listeners are registered when the script is loaded;    *)
(* TrackerState.config is null until loadConfig has assigned it, and       *)
(* startSession and the idle listener read config.idleDetectionEnabled: a  *)
(* TypeError.  onActivated and startTrackingActiveTab catch it; the        *)
(* onUpdated listener and the idle listener have no try.                   *)
(***************************************************************************)
\* an awaited lookup resolves with no config: the handler ends what is open,
\* startSession throws, and the handler's catch takes it
LookupResolvesUnconfigured ==
  /\ config = NULL
  /\ lookups # <<>>
  /\ LET l == Head(lookups)
     IN SetTracker(IF l.kind = "get" THEN endCurrentSession(TS)
                   ELSE IF l.kind = "query" /\ activeTab # NoTab
                           /\ isTrackableUrl(TabObj(activeTab).url)
                   THEN endCurrentSession(TS)
                   ELSE TS)
  /\ lookups' = Tail(lookups)
  /\ UNCHANGED <<isIdle, config, storageVars, clockVars, tabVars, online, sideVars, syncVars>>

\* tabs.onUpdated for a URL change of tab 1 with no config: updateCurrentSession
\* reaches startSession, whose exception rejects the listener's promise
OnUpdatedUrlUnconfigured(u) ==
  /\ config = NULL
  /\ u # tab1Url
  /\ tab1Url' = u
  /\ SetTracker(IF activeTab # 1 THEN TS ELSE endCurrentSession(TS))
  /\ unhandled' = IF activeTab = 1 /\ isTrackableUrl(u)
                  THEN unhandled \cup {"onUpdated"} ELSE unhandled
  /\ UNCHANGED <<tab1Title, activeTab, isIdle, config, storageVars, clockVars, lookups, online,
                 syncVars, stats, initVars, stConfig, clear, focused, idleVars>>

\* idle.onStateChanged with no config: its first statement throws
OnIdleStateUnconfigured(state) ==
  /\ config = NULL
  /\ unhandled' = unhandled \cup {"onStateChanged"}
  /\ UNCHANGED <<trackerVars, storageVars, clockVars, tabVars, lookups, online,
                 syncVars, stats, initVars, stConfig, clear, focused, idleVars>>

NextEarly ==
  \/ Tick
  \/ \E t \in TabIds : OnActivated(t)
  \/ ConfigIsLoaded /\ LookupResolves
  \/ LookupResolvesUnconfigured
  \/ ConfigIsLoaded /\ \E u \in Tab1Urls : OnUpdatedUrl(u)
  \/ \E u \in Tab1Urls : OnUpdatedUrlUnconfigured(u)
  \/ OnFocusLost
  \/ OnFocusGained
  \* with the default config loaded the idle listener returns at once
  \/ \E state \in {"idle", "active"} : OnIdleStateUnconfigured(state)
  \/ \E q \in InitProcs : DeviceIdResolved(q)
  \/ \E q \in InitProcs : DeviceIdSaved(q)
  \/ \E q \in InitProcs : ConfigLoaded(q)
  \/ \E q \in InitProcs : PendingLoaded(q)
  \/ \E q \in InitProcs : AlarmSet(q)
  \/ \E q \in InitProcs : ActiveTabTracked(q)

SpecEarly == InitInit /\ [][NextEarly]_vars

(***************************************************************************)
(* C39: no listener ends with an exception nothing caught, events that     *)
(* arrive before the config is loaded included, and no session is open     *)
(* while no config is loaded.                                              *)
(***************************************************************************)
C39_NoSessionWithoutConfig == config = NULL => currentSession = NULL
C39_EarlyEventsHandled == unhandled = {} /\ C39_NoSessionWithoutConfig

(***************************************************************************)
(* C40: the stored pendingSessions equal the in-memory buffer once         *)
(* initialize() has loaded them (a storage write takes effect when it is   *)
(* issued), and stored pending sessions survive a restart: a session       *)
(* closed while initialize() awaits loadPendingSessions does not overwrite *)
(* the sessions stored before, and is not dropped from the buffer when the *)
(* load completes.                                                         *)
(***************************************************************************)
C40_Loading(q) == init[q].pc = "pendingGet"
C40_Loaded == /\ \A q \in InitProcs : init[q].pc \in {"idle", "alarm", "tabsQuery", "done"}
              /\ \E q \in InitProcs : init[q].pc # "idle"
C40_StoredIsBuffer == C40_Loaded => stPending = pendingSessions
C40_StoredKept ==
  \A i \in 1..Len(stPending) : \E j \in 1..Len(stPending') : stPending'[j] = stPending[i]
C40_BufferKept ==
  \A q \in InitProcs : C40_Loading(q) /\ ~ C40_Loading(q)' =>
    \A i \in 1..Len(pendingSessions) :
      \E j \in 1..Len(pendingSessions') : pendingSessions'[j] = pendingSessions[i]
C40_PendingSurvivesRestart ==
  [] C40_StoredIsBuffer /\ [][C40_StoredKept /\ C40_BufferKept]_vars

====
